---- MODULE Spec2Model ----
(***************************************************************************)
(* A model of the Game Boy emulator core: the MMU (memory.rs), its timer   *)
(* and divider, and the CPU step loop with interrupt dispatch (cpu.rs).    *)
(* Bytes are 0..255 and words 0..65535; every wrapping operation of the    *)
(* source is written with an explicit modulus.                             *)
(***************************************************************************)
EXTENDS Integers, Naturals, Sequences, FiniteSets, TLC

(***************************************************************************)
(* Bit arithmetic on u8 values.                                            *)
(***************************************************************************)
Bit(x, n) == (x \div (2 ^ n)) % 2

And(x, y) ==
    Bit(x, 0) * Bit(y, 0)
  + 2 * (Bit(x, 1) * Bit(y, 1))
  + 4 * (Bit(x, 2) * Bit(y, 2))
  + 8 * (Bit(x, 3) * Bit(y, 3))
  + 16 * (Bit(x, 4) * Bit(y, 4))
  + 32 * (Bit(x, 5) * Bit(y, 5))
  + 64 * (Bit(x, 6) * Bit(y, 6))
  + 128 * (Bit(x, 7) * Bit(y, 7))

Or(x, y) == x + y - And(x, y)

Xor(x, y) == x + y - 2 * And(x, y)

\* trailing_zeros taken for the index of the highest set bit
highest_bit(x) ==
    IF x = 0 THEN 8
    ELSE CHOOSE n \in 0..7 : Bit(x, n) = 1 /\ \A m \in (n + 1)..7 : Bit(x, m) = 0

\* u8::trailing_zeros: the index of the lowest set bit, 8 for zero
trailing_zeros(x) ==
    IF x = 0 THEN 8
    ELSE CHOOSE n \in 0..7 : Bit(x, n) = 1 /\ \A m \in 0..(n - 1) : Bit(x, m) = 0

(***************************************************************************)
(* Fixed-size byte arrays that are zeroed at creation are kept sparse: an  *)
(* index absent from the domain holds 0, and a stored 0 is dropped so that *)
(* equal arrays are equal values.                                          *)
(***************************************************************************)
Zeros == [i \in {} |-> 0]

Get(arr, i) == IF i \in DOMAIN arr THEN arr[i] ELSE 0

Put(arr, i, v) ==
    IF v = 0
    THEN [j \in (DOMAIN arr) \ {i} |-> arr[j]]
    ELSE [j \in (DOMAIN arr) \cup {i} |-> IF j = i THEN v ELSE arr[j]]

(***************************************************************************)
(* Addresses of the registers the model names.                             *)
(***************************************************************************)
JOYP_ADDR == \hFF00
DIV_ADDR  == \hFF04
TIMA_ADDR == \hFF05
TMA_ADDR  == \hFF06
TAC_ADDR  == \hFF07
IF_ADDR   == \hFF0F
DMA_ADDR  == \hFF46
BOOT_ADDR == \hFF50
IE_ADDR   == \hFFFF

\* the cartridge image: at least 32 KiB, as main.rs loads it for MBC0
ROM_SIZE == 32768

(***************************************************************************)
(* Memory (memory.rs).                                                     *)
(***************************************************************************)
\* Memory::new
MemoryNew ==
    [ boot_rom         |-> Zeros,
      rom              |-> Zeros,
      vram             |-> Zeros,
      wram             |-> Zeros,
      oam              |-> Zeros,
      hram             |-> Zeros,
      io               |-> Zeros,
      boot_rom_enabled |-> TRUE,
      ie_register      |-> 0,
      div_counter      |-> 0,
      timer_counter    |-> 0 ]

\* Memory::load_boot_rom, for an image of 256 bytes given by its non-zero bytes
load_boot_rom(mem, data) == [mem EXCEPT !.boot_rom = data]

\* Memory::load_rom, for an image of ROM_SIZE bytes given by its non-zero bytes
load_rom(mem, data) == [mem EXCEPT !.rom = data]

\* self.rom.get(addr).copied().unwrap_or(0xFF)
rom_get(mem, addr) == IF addr < ROM_SIZE THEN Get(mem.rom, addr) ELSE 255

\* read with the echo region left unimplemented, like external RAM
read_echo_open(mem, addr) ==
    CASE addr <= \h00FF ->
            IF mem.boot_rom_enabled THEN Get(mem.boot_rom, addr) ELSE rom_get(mem, addr)
      [] addr >= \h0100 /\ addr <= \h7FFF -> rom_get(mem, addr)
      [] addr >= \h8000 /\ addr <= \h9FFF -> Get(mem.vram, addr - \h8000)
      [] addr >= \hA000 /\ addr <= \hBFFF -> 255
      [] addr >= \hC000 /\ addr <= \hDFFF -> Get(mem.wram, addr - \hC000)
      [] addr >= \hE000 /\ addr <= \hFDFF -> 255
      [] addr >= \hFE00 /\ addr <= \hFE9F -> Get(mem.oam, addr - \hFE00)
      [] addr >= \hFEA0 /\ addr <= \hFEFF -> 255
      [] addr >= \hFF00 /\ addr <= \hFF7F -> Get(mem.io, addr - \hFF00)
      [] addr >= \hFF80 /\ addr <= \hFFFE -> Get(mem.hram, addr - \hFF80)
      [] addr = \hFFFF -> mem.ie_register

\* read with external RAM read as a zeroed array
read_ext_zero(mem, addr) ==
    CASE addr <= \h00FF ->
            IF mem.boot_rom_enabled THEN Get(mem.boot_rom, addr) ELSE rom_get(mem, addr)
      [] addr >= \h0100 /\ addr <= \h7FFF -> rom_get(mem, addr)
      [] addr >= \h8000 /\ addr <= \h9FFF -> Get(mem.vram, addr - \h8000)
      [] addr >= \hA000 /\ addr <= \hBFFF -> 0
      [] addr >= \hC000 /\ addr <= \hDFFF -> Get(mem.wram, addr - \hC000)
      [] addr >= \hE000 /\ addr <= \hFDFF -> Get(mem.wram, addr - \hE000)
      [] addr >= \hFE00 /\ addr <= \hFE9F -> Get(mem.oam, addr - \hFE00)
      [] addr >= \hFEA0 /\ addr <= \hFEFF -> 255
      [] addr >= \hFF00 /\ addr <= \hFF7F -> Get(mem.io, addr - \hFF00)
      [] addr >= \hFF80 /\ addr <= \hFFFE -> Get(mem.hram, addr - \hFF80)
      [] addr = \hFFFF -> mem.ie_register

\* Memory::read
read(mem, addr) ==
    CASE addr <= \h00FF ->
            IF mem.boot_rom_enabled THEN Get(mem.boot_rom, addr) ELSE rom_get(mem, addr)
      [] addr >= \h0100 /\ addr <= \h7FFF -> rom_get(mem, addr)
      [] addr >= \h8000 /\ addr <= \h9FFF -> Get(mem.vram, addr - \h8000)
      [] addr >= \hA000 /\ addr <= \hBFFF -> 255
      [] addr >= \hC000 /\ addr <= \hDFFF -> Get(mem.wram, addr - \hC000)
      [] addr >= \hE000 /\ addr <= \hFDFF -> Get(mem.wram, addr - \hE000)
      [] addr >= \hFE00 /\ addr <= \hFE9F -> Get(mem.oam, addr - \hFE00)
      [] addr >= \hFEA0 /\ addr <= \hFEFF -> 255
      [] addr >= \hFF00 /\ addr <= \hFF7F -> Get(mem.io, addr - \hFF00)
      [] addr >= \hFF80 /\ addr <= \hFFFE -> Get(mem.hram, addr - \hFF80)
      [] addr = \hFFFF -> mem.ie_register

\* write that retires the boot overlay on every write to 0xFF50, zero included
write_boot_any(mem, addr, value) ==
    CASE addr <= \h7FFF -> mem
      [] addr >= \h8000 /\ addr <= \h9FFF ->
            [mem EXCEPT !.vram = Put(@, addr - \h8000, value)]
      [] addr >= \hA000 /\ addr <= \hBFFF -> mem
      [] addr >= \hC000 /\ addr <= \hDFFF ->
            [mem EXCEPT !.wram = Put(@, addr - \hC000, value)]
      [] addr >= \hE000 /\ addr <= \hFDFF ->
            [mem EXCEPT !.wram = Put(@, addr - \hE000, value)]
      [] addr >= \hFE00 /\ addr <= \hFE9F ->
            [mem EXCEPT !.oam = Put(@, addr - \hFE00, value)]
      [] addr >= \hFEA0 /\ addr <= \hFEFF -> mem
      [] addr >= \hFF00 /\ addr <= \hFF7F ->
            LET m1 == IF addr = BOOT_ADDR
                      THEN [mem EXCEPT !.boot_rom_enabled = FALSE]
                      ELSE mem
            IN  IF addr = DIV_ADDR
                THEN [m1 EXCEPT !.io = Put(@, addr - \hFF00, 0), !.div_counter = 0]
                ELSE [m1 EXCEPT !.io = Put(@, addr - \hFF00, value)]
      [] addr >= \hFF80 /\ addr <= \hFFFE ->
            [mem EXCEPT !.hram = Put(@, addr - \hFF80, value)]
      [] addr = \hFFFF -> [mem EXCEPT !.ie_register = value]

\* write whose 0xFF50 arm stores the switch: zero maps the boot ROM again
write_boot_toggle(mem, addr, value) ==
    CASE addr <= \h7FFF -> mem
      [] addr >= \h8000 /\ addr <= \h9FFF ->
            [mem EXCEPT !.vram = Put(@, addr - \h8000, value)]
      [] addr >= \hA000 /\ addr <= \hBFFF -> mem
      [] addr >= \hC000 /\ addr <= \hDFFF ->
            [mem EXCEPT !.wram = Put(@, addr - \hC000, value)]
      [] addr >= \hE000 /\ addr <= \hFDFF ->
            [mem EXCEPT !.wram = Put(@, addr - \hE000, value)]
      [] addr >= \hFE00 /\ addr <= \hFE9F ->
            [mem EXCEPT !.oam = Put(@, addr - \hFE00, value)]
      [] addr >= \hFEA0 /\ addr <= \hFEFF -> mem
      [] addr >= \hFF00 /\ addr <= \hFF7F ->
            LET m1 == IF addr = BOOT_ADDR
                      THEN [mem EXCEPT !.boot_rom_enabled = (value = 0)]
                      ELSE mem
            IN  IF addr = DIV_ADDR
                THEN [m1 EXCEPT !.io = Put(@, addr - \hFF00, 0), !.div_counter = 0]
                ELSE [m1 EXCEPT !.io = Put(@, addr - \hFF00, value)]
      [] addr >= \hFF80 /\ addr <= \hFFFE ->
            [mem EXCEPT !.hram = Put(@, addr - \hFF80, value)]
      [] addr = \hFFFF -> [mem EXCEPT !.ie_register = value]

\* write that stores into the cartridge array
write_rom_stored(mem, addr, value) ==
    CASE addr <= \h7FFF -> [mem EXCEPT !.rom = Put(@, addr, value)]
      [] addr >= \h8000 /\ addr <= \h9FFF ->
            [mem EXCEPT !.vram = Put(@, addr - \h8000, value)]
      [] addr >= \hA000 /\ addr <= \hBFFF -> mem
      [] addr >= \hC000 /\ addr <= \hDFFF ->
            [mem EXCEPT !.wram = Put(@, addr - \hC000, value)]
      [] addr >= \hE000 /\ addr <= \hFDFF ->
            [mem EXCEPT !.wram = Put(@, addr - \hE000, value)]
      [] addr >= \hFE00 /\ addr <= \hFE9F ->
            [mem EXCEPT !.oam = Put(@, addr - \hFE00, value)]
      [] addr >= \hFEA0 /\ addr <= \hFEFF -> mem
      [] addr >= \hFF00 /\ addr <= \hFF7F ->
            LET m1 == IF addr = BOOT_ADDR /\ value # 0
                      THEN [mem EXCEPT !.boot_rom_enabled = FALSE]
                      ELSE mem
            IN  IF addr = DIV_ADDR
                THEN [m1 EXCEPT !.io = Put(@, addr - \hFF00, 0), !.div_counter = 0]
                ELSE [m1 EXCEPT !.io = Put(@, addr - \hFF00, value)]
      [] addr >= \hFF80 /\ addr <= \hFFFE ->
            [mem EXCEPT !.hram = Put(@, addr - \hFF80, value)]
      [] addr = \hFFFF -> [mem EXCEPT !.ie_register = value]

\* write with no DIV arm: 0xFF04 stores the value like any I/O register
write_div_stored(mem, addr, value) ==
    CASE addr <= \h7FFF -> mem
      [] addr >= \h8000 /\ addr <= \h9FFF ->
            [mem EXCEPT !.vram = Put(@, addr - \h8000, value)]
      [] addr >= \hA000 /\ addr <= \hBFFF -> mem
      [] addr >= \hC000 /\ addr <= \hDFFF ->
            [mem EXCEPT !.wram = Put(@, addr - \hC000, value)]
      [] addr >= \hE000 /\ addr <= \hFDFF ->
            [mem EXCEPT !.wram = Put(@, addr - \hE000, value)]
      [] addr >= \hFE00 /\ addr <= \hFE9F ->
            [mem EXCEPT !.oam = Put(@, addr - \hFE00, value)]
      [] addr >= \hFEA0 /\ addr <= \hFEFF -> mem
      [] addr >= \hFF00 /\ addr <= \hFF7F ->
            LET m1 == IF addr = BOOT_ADDR /\ value # 0
                      THEN [mem EXCEPT !.boot_rom_enabled = FALSE]
                      ELSE mem
            IN  [m1 EXCEPT !.io = Put(@, addr - \hFF00, value)]
      [] addr >= \hFF80 /\ addr <= \hFFFE ->
            [mem EXCEPT !.hram = Put(@, addr - \hFF80, value)]
      [] addr = \hFFFF -> [mem EXCEPT !.ie_register = value]

\* Memory::write
write(mem, addr, value) ==
    CASE addr <= \h7FFF -> mem
      [] addr >= \h8000 /\ addr <= \h9FFF ->
            [mem EXCEPT !.vram = Put(@, addr - \h8000, value)]
      [] addr >= \hA000 /\ addr <= \hBFFF -> mem
      [] addr >= \hC000 /\ addr <= \hDFFF ->
            [mem EXCEPT !.wram = Put(@, addr - \hC000, value)]
      [] addr >= \hE000 /\ addr <= \hFDFF ->
            [mem EXCEPT !.wram = Put(@, addr - \hE000, value)]
      [] addr >= \hFE00 /\ addr <= \hFE9F ->
            [mem EXCEPT !.oam = Put(@, addr - \hFE00, value)]
      [] addr >= \hFEA0 /\ addr <= \hFEFF -> mem
      [] addr >= \hFF00 /\ addr <= \hFF7F ->
            LET m1 == IF addr = BOOT_ADDR /\ value # 0
                      THEN [mem EXCEPT !.boot_rom_enabled = FALSE]
                      ELSE mem
            IN  IF addr = DIV_ADDR
                THEN [m1 EXCEPT !.io = Put(@, addr - \hFF00, 0), !.div_counter = 0]
                ELSE [m1 EXCEPT !.io = Put(@, addr - \hFF00, value)]
      [] addr >= \hFF80 /\ addr <= \hFFFE ->
            [mem EXCEPT !.hram = Put(@, addr - \hFF80, value)]
      [] addr = \hFFFF -> [mem EXCEPT !.ie_register = value]

\* Memory::read_word
read_word(mem, addr) ==
    LET low  == read(mem, addr)
        high == read(mem, (addr + 1) % 65536)
    IN  high * 256 + low

\* Memory::write_word
write_word(mem, addr, value) ==
    write(write(mem, addr, value % 256), (addr + 1) % 65536, value \div 256)

(***************************************************************************)
(* Timers (Memory::update_timers).                                         *)
(***************************************************************************)
\* the threshold table with the 4096 Hz and 16384 Hz entries exchanged
threshold_of_swapped(tac) ==
    CASE And(tac, 3) = 0 -> 256
      [] And(tac, 3) = 1 -> 16
      [] And(tac, 3) = 2 -> 64
      [] And(tac, 3) = 3 -> 1024

\* match tac & 0x03 { 0 => 1024, 1 => 16, 2 => 64, 3 => 256 }
threshold_of(tac) ==
    CASE And(tac, 3) = 0 -> 1024
      [] And(tac, 3) = 1 -> 16
      [] And(tac, 3) = 2 -> 64
      [] And(tac, 3) = 3 -> 256

\* (tac & 0x04) != 0
timer_enabled(tac) == And(tac, 4) # 0

\* a TIMA increment that wraps to 0x00 on overflow and loads no TMA
tima_increment_wrap(mem) ==
    LET tima == Get(mem.io, 5) IN
    IF tima = 255
    THEN LET m1     == [mem EXCEPT !.io = Put(@, 5, 0)]
             if_reg == Get(m1.io, 15)
         IN  [m1 EXCEPT !.io = Put(@, 15, Or(if_reg, 4))]
    ELSE [mem EXCEPT !.io = Put(@, 5, (tima + 1) % 256)]

\* the body of the while loop: one TIMA increment
tima_increment(mem) ==
    LET tima == Get(mem.io, 5) IN
    IF tima = 255
    THEN LET tma    == Get(mem.io, 6)
             m1     == [mem EXCEPT !.io = Put(@, 5, tma)]
             if_reg == Get(m1.io, 15)
         IN  [m1 EXCEPT !.io = Put(@, 15, Or(if_reg, 4))]
    ELSE [mem EXCEPT !.io = Put(@, 5, (tima + 1) % 256)]

\* while self.timer_counter >= threshold { ... }
RECURSIVE timer_loop(_, _)
timer_loop(mem, threshold) ==
    IF mem.timer_counter >= threshold
    THEN timer_loop(tima_increment([mem EXCEPT !.timer_counter = @ - threshold]),
                    threshold)
    ELSE mem

\* the DIV half with the comparison written > 256
update_div_gt(mem, cycles) ==
    LET dc == (mem.div_counter + cycles) % 65536 IN
    IF dc > 256
    THEN [mem EXCEPT !.div_counter = dc - 256,
                     !.io = Put(@, 4, (Get(@, 4) + 1) % 256)]
    ELSE [mem EXCEPT !.div_counter = dc]

\* the DIV half of update_timers
update_div(mem, cycles) ==
    LET dc == (mem.div_counter + cycles) % 65536 IN
    IF dc >= 256
    THEN [mem EXCEPT !.div_counter = dc - 256,
                     !.io = Put(@, 4, (Get(@, 4) + 1) % 256)]
    ELSE [mem EXCEPT !.div_counter = dc]

\* Memory::update_timers
update_timers(mem, cycles) ==
    LET m1  == update_div(mem, cycles)
        tac == Get(m1.io, 7)
    IN  IF timer_enabled(tac)
        THEN timer_loop([m1 EXCEPT !.timer_counter = (@ + cycles) % 65536],
                        threshold_of(tac))
        ELSE m1

(***************************************************************************)
(* Input (input.rs): the eight buttons, TRUE while pressed.                *)
(***************************************************************************)
\* Input::new
InputNew ==
    [ right |-> FALSE, left |-> FALSE, up |-> FALSE, down |-> FALSE,
      a |-> FALSE, b |-> FALSE, select |-> FALSE, start |-> FALSE ]

Buttons == {"right", "left", "up", "down", "a", "b", "select", "start"}

\* result &= !mask
Clear(result, mask) == And(result, 255 - mask)

\* Input::get_joypad_state
get_joypad_state(inp, joypad_register) ==
    LET select_buttons    == And(joypad_register, \h20) = 0
        select_directions == And(joypad_register, \h10) = 0
        r0 == \hFF
        r1 == IF select_buttons /\ inp.start  THEN Clear(r0, \h08) ELSE r0
        r2 == IF select_buttons /\ inp.select THEN Clear(r1, \h04) ELSE r1
        r3 == IF select_buttons /\ inp.b      THEN Clear(r2, \h02) ELSE r2
        r4 == IF select_buttons /\ inp.a      THEN Clear(r3, \h01) ELSE r3
        r5 == IF select_directions /\ inp.down  THEN Clear(r4, \h08) ELSE r4
        r6 == IF select_directions /\ inp.up    THEN Clear(r5, \h04) ELSE r5
        r7 == IF select_directions /\ inp.left  THEN Clear(r6, \h02) ELSE r6
        r8 == IF select_directions /\ inp.right THEN Clear(r7, \h01) ELSE r7
    IN  Or(And(r8, \h0F), And(joypad_register, \h30))

(***************************************************************************)
(* CPU (cpu.rs).  A CPU value is a record of the struct's fields; three    *)
(* more fields observe one step() call: irq is the interrupt bit that the  *)
(* call dispatched (NoIrq when none), fetched counts its fetch_byte calls, *)
(* chk holds IME, halted and IF as handle_interrupts left them, and raised *)
(* tells whether the call's timer tick turned IF bit 2 from 0 to 1.        *)
(***************************************************************************)
NoIrq == 8

\* FlagsRegister::init
FlagsInit == [zero |-> FALSE, negative |-> FALSE, half_carry |-> FALSE, carry |-> FALSE]

\* the conversion to a byte with the carry flag put at bit 3
to_byte_carry_low(flag) ==
    LET f0 == 0
        f1 == Or(f0, IF flag.zero THEN 128 ELSE 0)
        f2 == Or(f1, IF flag.negative THEN 64 ELSE 0)
        f3 == Or(f2, IF flag.half_carry THEN 32 ELSE 0)
        f4 == Or(f3, IF flag.carry THEN 8 ELSE 0)
    IN  f4

\* impl From<FlagsRegister> for u8
to_byte(flag) ==
    LET f0 == 0
        f1 == Or(f0, IF flag.zero THEN 128 ELSE 0)
        f2 == Or(f1, IF flag.negative THEN 64 ELSE 0)
        f3 == Or(f2, IF flag.half_carry THEN 32 ELSE 0)
        f4 == Or(f3, IF flag.carry THEN 16 ELSE 0)
    IN  f4

\* impl From<u8> for FlagsRegister
from_byte(value) ==
    [ zero       |-> And(value, \h80) = \h80,
      negative   |-> And(value, \h40) = \h40,
      half_carry |-> And(value, \h20) = \h20,
      carry      |-> And(value, \h10) = \h10 ]

\* Clock::new; speed is a constant no code reads
ClockNew == [ticks |-> 0]

\* Clock::tick: the clock counts the cycles it is handed
clock_tick(clock, cycles) == [clock EXCEPT !.ticks = @ + cycles]

\* Clock::get_ticks
clock_get_ticks(clock) == clock.ticks

\* CPU::new
CPUNew ==
    [ a |-> \h01, f |-> FlagsInit, b |-> \h00, c |-> \h13, d |-> \h00, e |-> \hD8,
      h |-> \h01, l |-> \h4D, sp |-> \hFFFE, pc |-> \h0100,
      memory |-> MemoryNew, clock |-> ClockNew, halted |-> FALSE, ime |-> FALSE,
      irq |-> NoIrq, fetched |-> 0,
      chk |-> [ime |-> FALSE, halted |-> FALSE, if_reg |-> 0], raised |-> FALSE ]

\* push_stack without its second decrement of SP
push_stack_one_dec(s, value) ==
    LET sp1 == (s.sp - 1) % 65536
        m1  == write(s.memory, sp1, value \div 256)
        m2  == write(m1, sp1, value % 256)
    IN  [s EXCEPT !.sp = sp1, !.memory = m2]

\* CPU::push_stack
push_stack(s, value) ==
    LET sp1 == (s.sp - 1) % 65536
        m1  == write(s.memory, sp1, value \div 256)
        sp2 == (sp1 - 1) % 65536
        m2  == write(m1, sp2, value % 256)
    IN  [s EXCEPT !.sp = sp2, !.memory = m2]

\* the vector table with the Timer and Serial vectors exchanged
vector_of_swapped(interrupt_bit) ==
    CASE interrupt_bit = 0 -> \h0040
      [] interrupt_bit = 1 -> \h0048
      [] interrupt_bit = 2 -> \h0058
      [] interrupt_bit = 3 -> \h0050
      [] interrupt_bit = 4 -> \h0060

\* the match of handle_interrupts on interrupt_bit
vector_of(interrupt_bit) ==
    CASE interrupt_bit = 0 -> \h0040
      [] interrupt_bit = 1 -> \h0048
      [] interrupt_bit = 2 -> \h0050
      [] interrupt_bit = 3 -> \h0058
      [] interrupt_bit = 4 -> \h0060

\* handle_interrupts acknowledging every request at once
handle_interrupts_ack_all(s) ==
    IF ~s.ime /\ ~s.halted THEN [cpu |-> s, cycles |-> 0]
    ELSE
    LET ie        == read(s.memory, IE_ADDR)
        if_reg    == read(s.memory, IF_ADDR)
        triggered == And(ie, if_reg)
    IN
    IF triggered = 0 THEN [cpu |-> s, cycles |-> 0]
    ELSE
    LET s1 == [s EXCEPT !.halted = FALSE] IN
    IF ~s1.ime THEN [cpu |-> s1, cycles |-> 0]
    ELSE
    LET s2            == [s1 EXCEPT !.ime = FALSE]
        interrupt_bit == trailing_zeros(triggered)
    IN
    IF interrupt_bit >= 5 THEN [cpu |-> s2, cycles |-> 0]
    ELSE
    LET s3 == [s2 EXCEPT !.memory = write(@, IF_ADDR, 0)]
        s4 == push_stack(s3, s3.pc)
    IN  [cpu |-> [s4 EXCEPT !.pc = vector_of(interrupt_bit), !.irq = interrupt_bit],
         cycles |-> 20]

\* CPU::handle_interrupts
handle_interrupts(s) ==
    IF ~s.ime /\ ~s.halted THEN [cpu |-> s, cycles |-> 0]
    ELSE
    LET ie        == read(s.memory, IE_ADDR)
        if_reg    == read(s.memory, IF_ADDR)
        triggered == And(ie, if_reg)
    IN
    IF triggered = 0 THEN [cpu |-> s, cycles |-> 0]
    ELSE
    LET s1 == [s EXCEPT !.halted = FALSE] IN
    IF ~s1.ime THEN [cpu |-> s1, cycles |-> 0]
    ELSE
    LET s2            == [s1 EXCEPT !.ime = FALSE]
        interrupt_bit == trailing_zeros(triggered)
    IN
    IF interrupt_bit >= 5 THEN [cpu |-> s2, cycles |-> 0]
    ELSE
    LET new_if == And(if_reg, 255 - 2 ^ interrupt_bit)
        s3     == [s2 EXCEPT !.memory = write(@, IF_ADDR, new_if)]
        s4     == push_stack(s3, s3.pc)
    IN  [cpu |-> [s4 EXCEPT !.pc = vector_of(interrupt_bit), !.irq = interrupt_bit],
         cycles |-> 20]

\* CPU::fetch_byte
fetch_byte(s) ==
    [cpu  |-> [s EXCEPT !.pc = (@ + 1) % 65536, !.fetched = @ + 1],
     byte |-> read(s.memory, s.pc)]

\* fetch_word that steps PC over the low byte only
fetch_word_short(s) ==
    LET lo == fetch_byte(s)
        hi == fetch_byte(lo.cpu)
    IN  [cpu |-> [hi.cpu EXCEPT !.pc = lo.cpu.pc], word |-> hi.byte * 256 + lo.byte]

\* CPU::fetch_word
fetch_word(s) ==
    LET lo == fetch_byte(s)
        hi == fetch_byte(lo.cpu)
    IN  [cpu |-> hi.cpu, word |-> hi.byte * 256 + lo.byte]

(***************************************************************************)
(* Register pairs, the stack and the 8-bit operand table.                  *)
(***************************************************************************)
get_bc(s) == s.b * 256 + s.c
get_de(s) == s.d * 256 + s.e
get_hl(s) == s.h * 256 + s.l

set_bc(s, value) == [s EXCEPT !.b = value \div 256, !.c = value % 256]
set_de(s, value) == [s EXCEPT !.d = value \div 256, !.e = value % 256]
set_hl(s, value) == [s EXCEPT !.h = value \div 256, !.l = value % 256]

\* pop_stack that reads the high byte first
pop_stack_swapped(s) ==
    LET high == read(s.memory, s.sp)
        sp1  == (s.sp + 1) % 65536
        low  == read(s.memory, sp1)
        sp2  == (sp1 + 1) % 65536
    IN  [cpu |-> [s EXCEPT !.sp = sp2], word |-> high * 256 + low]

\* CPU::pop_stack
pop_stack(s) ==
    LET low  == read(s.memory, s.sp)
        sp1  == (s.sp + 1) % 65536
        high == read(s.memory, sp1)
        sp2  == (sp1 + 1) % 65536
    IN  [cpu |-> [s EXCEPT !.sp = sp2], word |-> high * 256 + low]

\* CPU::read_r8
read_r8(s, reg) ==
    CASE reg = 0 -> s.b
      [] reg = 1 -> s.c
      [] reg = 2 -> s.d
      [] reg = 3 -> s.e
      [] reg = 4 -> s.h
      [] reg = 5 -> s.l
      [] reg = 6 -> read(s.memory, get_hl(s))
      [] reg = 7 -> s.a

\* CPU::write_r8
write_r8(s, reg, value) ==
    CASE reg = 0 -> [s EXCEPT !.b = value]
      [] reg = 1 -> [s EXCEPT !.c = value]
      [] reg = 2 -> [s EXCEPT !.d = value]
      [] reg = 3 -> [s EXCEPT !.e = value]
      [] reg = 4 -> [s EXCEPT !.h = value]
      [] reg = 5 -> [s EXCEPT !.l = value]
      [] reg = 6 -> [s EXCEPT !.memory = write(@, get_hl(s), value)]
      [] reg = 7 -> [s EXCEPT !.a = value]

\* offset as i8 as i16 as u16
signed_offset(offset) == IF offset >= 128 THEN offset + 65280 ELSE offset

(***************************************************************************)
(* ALU operations.  The 8-bit ones return the CPU with A and the flags     *)
(* set; the rotates and shifts return the CPU with the flags set and the   *)
(* result byte.                                                            *)
(***************************************************************************)
\* u8 from bool
carry_in(s) == IF s.f.carry THEN 1 ELSE 0

\* CPU::alu_inc
alu_inc(s, value) ==
    LET result == (value + 1) % 256 IN
    [cpu    |-> [s EXCEPT !.f = [@ EXCEPT !.zero = (result = 0), !.negative = FALSE,
                                          !.half_carry = (value % 16) + 1 > 15]],
     result |-> result]

\* CPU::alu_dec
alu_dec(s, value) ==
    LET result == (value - 1) % 256 IN
    [cpu    |-> [s EXCEPT !.f = [@ EXCEPT !.zero = (result = 0), !.negative = TRUE,
                                          !.half_carry = (value % 16 = 0)]],
     result |-> result]

\* CPU::alu_add
alu_add(s, value) ==
    LET result == (s.a + value) % 256 IN
    [s EXCEPT !.f = [zero       |-> result = 0,
                     negative   |-> FALSE,
                     half_carry |-> (s.a % 16) + (value % 16) > 15,
                     carry      |-> s.a + value > 255],
              !.a = result]

\* alu_adc with the carry-in left out of the half-carry sum
alu_adc_half_no_carry(s, value) ==
    LET carry  == carry_in(s)
        result == (s.a + value + carry) % 256
    IN
    [s EXCEPT !.f = [zero       |-> result = 0,
                     negative   |-> FALSE,
                     half_carry |-> (s.a % 16) + (value % 16) > 15,
                     carry      |-> s.a + value + carry > 255],
              !.a = result]

\* CPU::alu_adc
alu_adc(s, value) ==
    LET carry  == carry_in(s)
        result == (s.a + value + carry) % 256
    IN
    [s EXCEPT !.f = [zero       |-> result = 0,
                     negative   |-> FALSE,
                     half_carry |-> (s.a % 16) + (value % 16) + carry > 15,
                     carry      |-> s.a + value + carry > 255],
              !.a = result]

\* CPU::alu_sub
alu_sub(s, value) ==
    LET result == (s.a - value) % 256 IN
    [s EXCEPT !.f = [zero       |-> result = 0,
                     negative   |-> TRUE,
                     half_carry |-> (s.a % 16) < (value % 16),
                     carry      |-> s.a < value],
              !.a = result]

\* alu_sbc with the carry-in left out of the half-borrow test
alu_sbc_half_no_carry(s, value) ==
    LET carry  == carry_in(s)
        result == (s.a - value - carry) % 256
    IN
    [s EXCEPT !.f = [zero       |-> result = 0,
                     negative   |-> TRUE,
                     half_carry |-> (s.a % 16) < (value % 16),
                     carry      |-> s.a < value + carry],
              !.a = result]

\* CPU::alu_sbc
alu_sbc(s, value) ==
    LET carry  == carry_in(s)
        result == (s.a - value - carry) % 256
    IN
    [s EXCEPT !.f = [zero       |-> result = 0,
                     negative   |-> TRUE,
                     half_carry |-> (s.a % 16) < (value % 16) + carry,
                     carry      |-> s.a < value + carry],
              !.a = result]

\* CPU::alu_and
alu_and(s, value) ==
    LET result == And(s.a, value) IN
    [s EXCEPT !.a = result,
              !.f = [zero |-> result = 0, negative |-> FALSE,
                     half_carry |-> TRUE, carry |-> FALSE]]

\* CPU::alu_or
alu_or(s, value) ==
    LET result == Or(s.a, value) IN
    [s EXCEPT !.a = result,
              !.f = [zero |-> result = 0, negative |-> FALSE,
                     half_carry |-> FALSE, carry |-> FALSE]]

\* CPU::alu_xor
alu_xor(s, value) ==
    LET result == Xor(s.a, value) IN
    [s EXCEPT !.a = result,
              !.f = [zero |-> result = 0, negative |-> FALSE,
                     half_carry |-> FALSE, carry |-> FALSE]]

\* CPU::alu_cp
alu_cp(s, value) ==
    LET result == (s.a - value) % 256 IN
    [s EXCEPT !.f = [zero       |-> result = 0,
                     negative   |-> TRUE,
                     half_carry |-> (s.a % 16) < (value % 16),
                     carry      |-> s.a < value]]

\* CPU::alu_add_hl
alu_add_hl(s, hl, value) ==
    [cpu    |-> [s EXCEPT !.f = [@ EXCEPT !.negative = FALSE,
                                          !.half_carry = (hl % 4096) + (value % 4096) > 4095,
                                          !.carry = hl + value > 65535]],
     result |-> (hl + value) % 65536]

\* alu_daa that tests the upper bound A > 0x99 after a subtraction as well
alu_daa_sub_range(s) ==
    LET low    == s.f.half_carry \/ (~s.f.negative /\ s.a % 16 > 9)
        high   == s.f.carry \/ s.a > \h99
        adjust == Or(IF low THEN \h06 ELSE 0, IF high THEN \h60 ELSE 0)
        a      == IF s.f.negative THEN (s.a - adjust) % 256 ELSE (s.a + adjust) % 256
    IN  [s EXCEPT !.a = a,
                  !.f = [@ EXCEPT !.carry = high, !.zero = (a = 0), !.half_carry = FALSE]]

\* CPU::alu_daa
alu_daa(s) ==
    LET low    == s.f.half_carry \/ (~s.f.negative /\ s.a % 16 > 9)
        high   == s.f.carry \/ (~s.f.negative /\ s.a > \h99)
        adjust == Or(IF low THEN \h06 ELSE 0, IF high THEN \h60 ELSE 0)
        a      == IF s.f.negative THEN (s.a - adjust) % 256 ELSE (s.a + adjust) % 256
    IN  [s EXCEPT !.a = a,
                  !.f = [@ EXCEPT !.carry = high, !.zero = (a = 0), !.half_carry = FALSE]]

\* CPU::alu_rlc
alu_rlc(s, value) ==
    LET carry  == value \div 128
        result == ((value * 2) % 256) + carry
    IN  [cpu    |-> [s EXCEPT !.f = [zero |-> result = 0, negative |-> FALSE,
                                    half_carry |-> FALSE, carry |-> carry = 1]],
         result |-> result]

\* CPU::alu_rrc
alu_rrc(s, value) ==
    LET carry  == value % 2
        result == (value \div 2) + carry * 128
    IN  [cpu    |-> [s EXCEPT !.f = [zero |-> result = 0, negative |-> FALSE,
                                    half_carry |-> FALSE, carry |-> carry = 1]],
         result |-> result]

\* CPU::alu_rl
alu_rl(s, value) ==
    LET carry  == carry_in(s)
        new_carry == value \div 128
        result == ((value * 2) % 256) + carry
    IN  [cpu    |-> [s EXCEPT !.f = [zero |-> result = 0, negative |-> FALSE,
                                    half_carry |-> FALSE, carry |-> new_carry = 1]],
         result |-> result]

\* CPU::alu_rr
alu_rr(s, value) ==
    LET carry  == carry_in(s)
        new_carry == value % 2
        result == (value \div 2) + carry * 128
    IN  [cpu    |-> [s EXCEPT !.f = [zero |-> result = 0, negative |-> FALSE,
                                    half_carry |-> FALSE, carry |-> new_carry = 1]],
         result |-> result]

\* CPU::alu_sla
alu_sla(s, value) ==
    LET carry  == value \div 128
        result == (value * 2) % 256
    IN  [cpu    |-> [s EXCEPT !.f = [zero |-> result = 0, negative |-> FALSE,
                                    half_carry |-> FALSE, carry |-> carry = 1]],
         result |-> result]

\* CPU::alu_sra
alu_sra(s, value) ==
    LET carry  == value % 2
        result == (value \div 2) + And(value, 128)
    IN  [cpu    |-> [s EXCEPT !.f = [zero |-> result = 0, negative |-> FALSE,
                                    half_carry |-> FALSE, carry |-> carry = 1]],
         result |-> result]

\* CPU::alu_swap
alu_swap(s, value) ==
    LET low    == value % 16
        high   == value \div 16
        result == low * 16 + high
    IN  [cpu    |-> [s EXCEPT !.f = [zero |-> result = 0, negative |-> FALSE,
                                    half_carry |-> FALSE, carry |-> FALSE]],
         result |-> result]

\* CPU::alu_srl
alu_srl(s, value) ==
    LET carry  == value % 2
        result == value \div 2
    IN  [cpu    |-> [s EXCEPT !.f = [zero |-> result = 0, negative |-> FALSE,
                                    half_carry |-> FALSE, carry |-> carry = 1]],
         result |-> result]

\* CPU::alu_bit
alu_bit(s, bit, value) ==
    LET result == And(value, 2 ^ bit) IN
    [s EXCEPT !.f = [@ EXCEPT !.zero = (result = 0), !.negative = FALSE,
                              !.half_carry = TRUE]]

(***************************************************************************)
(* Instruction bodies shared by several arms of execute.                   *)
(***************************************************************************)
\* the condition of a conditional JR, JP, CALL or RET opcode: NZ, Z, NC, C
cc_holds(s, opcode) ==
    CASE (opcode \div 8) % 4 = 0 -> ~s.f.zero
      [] (opcode \div 8) % 4 = 1 -> s.f.zero
      [] (opcode \div 8) % 4 = 2 -> ~s.f.carry
      [] (opcode \div 8) % 4 = 3 -> s.f.carry

\* JR with the offset byte added as an unsigned value
jr_unsigned(s, taken) ==
    LET fb == fetch_byte(s) IN
    IF taken
    THEN [cpu |-> [fb.cpu EXCEPT !.pc = (@ + fb.byte) % 65536], cycles |-> 12]
    ELSE [cpu |-> fb.cpu, cycles |-> 8]

\* JR r8 (taken = TRUE) and JR cc,r8
jr(s, taken) ==
    LET fb == fetch_byte(s) IN
    IF taken
    THEN [cpu |-> [fb.cpu EXCEPT !.pc = (@ + signed_offset(fb.byte)) % 65536],
          cycles |-> 12]
    ELSE [cpu |-> fb.cpu, cycles |-> 8]

\* CALL that pushes the address of its own operand, not of the next instruction
call_push_early(s, taken) ==
    LET w == fetch_word(s) IN
    IF taken
    THEN [cpu |-> [push_stack(w.cpu, s.pc) EXCEPT !.pc = w.word], cycles |-> 24]
    ELSE [cpu |-> w.cpu, cycles |-> 12]

\* CALL a16 (taken = TRUE) and CALL cc,a16
call(s, taken) ==
    LET w == fetch_word(s) IN
    IF taken
    THEN [cpu |-> [push_stack(w.cpu, w.cpu.pc) EXCEPT !.pc = w.word], cycles |-> 24]
    ELSE [cpu |-> w.cpu, cycles |-> 12]

\* the arm of RET
ret_pop(s) ==
    LET p == pop_stack(s) IN
    [cpu |-> [p.cpu EXCEPT !.pc = p.word], cycles |-> 16]

\* RET cc with the cycle counts of RET: 16 when taken
ret_cc_16(s, taken) ==
    IF taken
    THEN LET p == pop_stack(s) IN [cpu |-> [p.cpu EXCEPT !.pc = p.word], cycles |-> 16]
    ELSE [cpu |-> s, cycles |-> 8]

\* RET cc
ret_cc(s, taken) ==
    IF taken
    THEN LET p == pop_stack(s) IN [cpu |-> [p.cpu EXCEPT !.pc = p.word], cycles |-> 20]
    ELSE [cpu |-> s, cycles |-> 8]

\* PUSH AF with the two bytes exchanged: F in the high byte, A in the low
push_af_swapped(s) ==
    LET f_value == to_byte(s.f)
        value   == f_value * 256 + s.a
    IN  [cpu |-> push_stack(s, value), cycles |-> 16]

\* PUSH AF
push_af(s) ==
    LET f_value == to_byte(s.f)
        value   == s.a * 256 + f_value
    IN  [cpu |-> push_stack(s, value), cycles |-> 16]

\* POP AF
pop_af(s) ==
    LET p == pop_stack(s) IN
    [cpu    |-> [p.cpu EXCEPT !.a = p.word \div 256,
                              !.f = from_byte(And(p.word % 256, \hF0))],
     cycles |-> 12]

\* the flags of ADD SP,r8 with the carry taken from the 16-bit sum
sp_offset_carry16(s) ==
    LET fb     == fetch_byte(s)
        signed == signed_offset(fb.byte)
        sp     == fb.cpu.sp
    IN  [cpu    |-> [fb.cpu EXCEPT !.f = [zero       |-> FALSE,
                                         negative   |-> FALSE,
                                         half_carry |-> (sp % 16) + (signed % 16) > 15,
                                         carry      |-> sp + signed > 65535]],
         result |-> (sp + signed) % 65536]

\* the common part of ADD SP,r8 and LD HL,SP+r8: the sum and the flags
sp_offset(s) ==
    LET fb     == fetch_byte(s)
        signed == signed_offset(fb.byte)
        sp     == fb.cpu.sp
    IN  [cpu    |-> [fb.cpu EXCEPT !.f = [zero       |-> FALSE,
                                         negative   |-> FALSE,
                                         half_carry |-> (sp % 16) + (signed % 16) > 15,
                                         carry      |-> (sp % 256) + (signed % 256) > 255]],
         result |-> (sp + signed) % 65536]

\* RLCA, RRCA, RLA and RRA: the arms 0x07, 0x0F, 0x17 and 0x1F, which clear Z
rotate_a(s, opcode) ==
    LET old == carry_in(s)
        res == CASE opcode = \h07 ->
                      [a |-> ((s.a * 2) % 256) + (s.a \div 128), carry |-> s.a \div 128]
                 [] opcode = \h0F ->
                      [a |-> (s.a \div 2) + (s.a % 2) * 128, carry |-> s.a % 2]
                 [] opcode = \h17 ->
                      [a |-> ((s.a * 2) % 256) + old, carry |-> s.a \div 128]
                 [] opcode = \h1F ->
                      [a |-> (s.a \div 2) + old * 128, carry |-> s.a % 2]
    IN  [cpu    |-> [s EXCEPT !.a = res.a,
                              !.f = [zero |-> FALSE, negative |-> FALSE,
                                     half_carry |-> FALSE, carry |-> res.carry = 1]],
         cycles |-> 4]

\* JP a16 (taken = TRUE) and JP cc,a16
jp(s, taken) ==
    LET w == fetch_word(s) IN
    IF taken
    THEN [cpu |-> [w.cpu EXCEPT !.pc = w.word], cycles |-> 16]
    ELSE [cpu |-> w.cpu, cycles |-> 12]

\* RST: the arms 0xC7, 0xCF, ..., 0xFF with their targets 0x00, 0x08, ..., 0x38
rst(s, target) == [cpu |-> [push_stack(s, s.pc) EXCEPT !.pc = target], cycles |-> 16]

\* RETI that leaves IME as it is, like RET
reti_no_ime(s) ==
    LET p == pop_stack(s) IN
    [cpu |-> [p.cpu EXCEPT !.pc = p.word], cycles |-> 16]

\* the arm of RETI
reti(s) ==
    LET p == pop_stack(s) IN
    [cpu |-> [p.cpu EXCEPT !.pc = p.word, !.ime = TRUE], cycles |-> 16]

\* the 16-bit register an opcode of the rows 0x00..0x3F names by its bits 5..4
get_r16(s, opcode) ==
    CASE (opcode \div 16) % 4 = 0 -> get_bc(s)
      [] (opcode \div 16) % 4 = 1 -> get_de(s)
      [] (opcode \div 16) % 4 = 2 -> get_hl(s)
      [] (opcode \div 16) % 4 = 3 -> s.sp

set_r16(s, opcode, value) ==
    CASE (opcode \div 16) % 4 = 0 -> set_bc(s, value)
      [] (opcode \div 16) % 4 = 1 -> set_de(s, value)
      [] (opcode \div 16) % 4 = 2 -> set_hl(s, value)
      [] (opcode \div 16) % 4 = 3 -> [s EXCEPT !.sp = value]

\* the address LD (rr),A and LD A,(rr) use, and HL as they leave it
indirect(s, opcode) ==
    CASE (opcode \div 16) % 4 = 0 -> [addr |-> get_bc(s), hl |-> get_hl(s)]
      [] (opcode \div 16) % 4 = 1 -> [addr |-> get_de(s), hl |-> get_hl(s)]
      [] (opcode \div 16) % 4 = 2 -> [addr |-> get_hl(s), hl |-> (get_hl(s) + 1) % 65536]
      [] (opcode \div 16) % 4 = 3 -> [addr |-> get_hl(s), hl |-> (get_hl(s) - 1) % 65536]

\* the 8-bit operations of the rows 0x80..0xBF and of their d8 forms
alu_op(s, opcode, value) ==
    CASE (opcode \div 8) % 8 = 0 -> alu_add(s, value)
      [] (opcode \div 8) % 8 = 1 -> alu_adc(s, value)
      [] (opcode \div 8) % 8 = 2 -> alu_sub(s, value)
      [] (opcode \div 8) % 8 = 3 -> alu_sbc(s, value)
      [] (opcode \div 8) % 8 = 4 -> alu_and(s, value)
      [] (opcode \div 8) % 8 = 5 -> alu_xor(s, value)
      [] (opcode \div 8) % 8 = 6 -> alu_or(s, value)
      [] (opcode \div 8) % 8 = 7 -> alu_cp(s, value)

\* DI
di(s) == [cpu |-> [s EXCEPT !.ime = FALSE], cycles |-> 4]

\* EI that leaves IME for a later step to set
ei_keeps_ime(s) == [cpu |-> s, cycles |-> 4]

\* EI
ei(s) == [cpu |-> [s EXCEPT !.ime = TRUE], cycles |-> 4]

\* an invalid opcode that locks the CPU up
invalid_halts(s) == [cpu |-> [s EXCEPT !.halted = TRUE], cycles |-> 4]

\* the arms of the invalid opcodes: => 4
invalid(s) == [cpu |-> s, cycles |-> 4]

\* the rotates, shifts and SWAP of execute_cb, opcodes 0x00..0x3F
cb_shift(s, opcode, value) ==
    CASE opcode <= \h07 -> alu_rlc(s, value)
      [] opcode >= \h08 /\ opcode <= \h0F -> alu_rrc(s, value)
      [] opcode >= \h10 /\ opcode <= \h17 -> alu_rl(s, value)
      [] opcode >= \h18 /\ opcode <= \h1F -> alu_rr(s, value)
      [] opcode >= \h20 /\ opcode <= \h27 -> alu_sla(s, value)
      [] opcode >= \h28 /\ opcode <= \h2F -> alu_sra(s, value)
      [] opcode >= \h30 /\ opcode <= \h37 -> alu_swap(s, value)
      [] opcode >= \h38 /\ opcode <= \h3F -> alu_srl(s, value)

\* execute_cb with BIT b,(HL) costing the 16 cycles of the other (HL) forms
execute_cb_bit_hl_16(s, opcode) ==
    LET reg   == opcode % 8
        bit   == (opcode \div 8) % 8
        value == read_r8(s, reg)
    IN
    IF opcode <= \h3F
    THEN LET r == cb_shift(s, opcode, value) IN
         [cpu |-> write_r8(r.cpu, reg, r.result), cycles |-> IF reg = 6 THEN 16 ELSE 8]
    ELSE IF opcode <= \h7F
    THEN [cpu |-> alu_bit(s, bit, value), cycles |-> IF reg = 6 THEN 16 ELSE 8]
    ELSE IF opcode <= \hBF
    THEN [cpu    |-> write_r8(s, reg, And(value, 255 - 2 ^ bit)),
          cycles |-> IF reg = 6 THEN 16 ELSE 8]
    ELSE [cpu    |-> write_r8(s, reg, Or(value, 2 ^ bit)),
          cycles |-> IF reg = 6 THEN 16 ELSE 8]

\* CPU::execute_cb
execute_cb(s, opcode) ==
    LET reg   == opcode % 8
        bit   == (opcode \div 8) % 8
        value == read_r8(s, reg)
    IN
    IF opcode <= \h3F
    THEN LET r == cb_shift(s, opcode, value) IN
         [cpu |-> write_r8(r.cpu, reg, r.result), cycles |-> IF reg = 6 THEN 16 ELSE 8]
    ELSE IF opcode <= \h7F
    THEN [cpu |-> alu_bit(s, bit, value), cycles |-> IF reg = 6 THEN 12 ELSE 8]
    ELSE IF opcode <= \hBF
    THEN [cpu    |-> write_r8(s, reg, And(value, 255 - 2 ^ bit)),
          cycles |-> IF reg = 6 THEN 16 ELSE 8]
    ELSE [cpu    |-> write_r8(s, reg, Or(value, 2 ^ bit)),
          cycles |-> IF reg = 6 THEN 16 ELSE 8]

(***************************************************************************)
(* Instructions.                                                           *)
(***************************************************************************)
OP_NOP   == \h00
OP_LD_SP == \h31
OP_HALT  == \h76
OP_DI    == \hF3
OP_EI    == \hFB

\* opcodes with no documented behaviour
InvalidOpcodes == {\hD3, \hDB, \hDD, \hE3, \hE4, \hEB, \hEC, \hED, \hF4, \hFC, \hFD}

\* JR cc, RET cc and CALL cc for NZ, Z, NC, C
JrCcOpcodes   == {\h20, \h28, \h30, \h38}
RetCcOpcodes  == {\hC0, \hC8, \hD0, \hD8}
CallCcOpcodes == {\hC4, \hCC, \hD4, \hDC}

\* every opcode byte has an arm in execute
Opcodes == 0..255

\* CPU::execute
execute(s, opcode) ==
    CASE opcode = OP_NOP -> [cpu |-> s, cycles |-> 4]
      [] opcode = OP_LD_SP ->
            LET w == fetch_word(s) IN
            [cpu |-> [w.cpu EXCEPT !.sp = w.word], cycles |-> 12]
      [] opcode = OP_HALT -> [cpu |-> [s EXCEPT !.halted = TRUE], cycles |-> 4]
      [] opcode = OP_DI -> di(s)
      [] opcode = OP_EI -> ei(s)
      [] opcode = \h18 -> jr(s, TRUE)
      [] opcode \in JrCcOpcodes -> jr(s, cc_holds(s, opcode))
      [] opcode \in RetCcOpcodes -> ret_cc(s, cc_holds(s, opcode))
      [] opcode = \hC9 -> ret_pop(s)
      [] opcode \in CallCcOpcodes -> call(s, cc_holds(s, opcode))
      [] opcode = \hCD -> call(s, TRUE)
      [] opcode = \hCB ->
            LET fb == fetch_byte(s) IN execute_cb(fb.cpu, fb.byte)
      [] opcode = \hC1 ->
            LET p == pop_stack(s) IN [cpu |-> set_bc(p.cpu, p.word), cycles |-> 12]
      [] opcode = \hD1 ->
            LET p == pop_stack(s) IN [cpu |-> set_de(p.cpu, p.word), cycles |-> 12]
      [] opcode = \hE1 ->
            LET p == pop_stack(s) IN [cpu |-> set_hl(p.cpu, p.word), cycles |-> 12]
      [] opcode = \hF1 -> pop_af(s)
      [] opcode = \hC5 -> [cpu |-> push_stack(s, get_bc(s)), cycles |-> 16]
      [] opcode = \hD5 -> [cpu |-> push_stack(s, get_de(s)), cycles |-> 16]
      [] opcode = \hE5 -> [cpu |-> push_stack(s, get_hl(s)), cycles |-> 16]
      [] opcode = \hF5 -> push_af(s)
      [] opcode = \hC6 ->
            LET fb == fetch_byte(s) IN [cpu |-> alu_add(fb.cpu, fb.byte), cycles |-> 8]
      [] opcode = \hCE ->
            LET fb == fetch_byte(s) IN [cpu |-> alu_adc(fb.cpu, fb.byte), cycles |-> 8]
      [] opcode = \hD6 ->
            LET fb == fetch_byte(s) IN [cpu |-> alu_sub(fb.cpu, fb.byte), cycles |-> 8]
      [] opcode = \hDE ->
            LET fb == fetch_byte(s) IN [cpu |-> alu_sbc(fb.cpu, fb.byte), cycles |-> 8]
      [] opcode = \hE8 ->
            LET r == sp_offset(s) IN [cpu |-> [r.cpu EXCEPT !.sp = r.result], cycles |-> 16]
      [] opcode = \hF8 ->
            LET r == sp_offset(s) IN [cpu |-> set_hl(r.cpu, r.result), cycles |-> 12]
      [] opcode \in InvalidOpcodes -> invalid(s)
      [] opcode \in {\h01, \h11, \h21} ->
            LET w == fetch_word(s) IN
            [cpu |-> set_r16(w.cpu, opcode, w.word), cycles |-> 12]
      [] opcode \in {\h02, \h12, \h22, \h32} ->
            LET i == indirect(s, opcode) IN
            [cpu    |-> set_hl([s EXCEPT !.memory = write(@, i.addr, s.a)], i.hl),
             cycles |-> 8]
      [] opcode \in {\h0A, \h1A, \h2A, \h3A} ->
            LET i == indirect(s, opcode) IN
            [cpu    |-> set_hl([s EXCEPT !.a = read(s.memory, i.addr)], i.hl),
             cycles |-> 8]
      [] opcode \in {\h03, \h13, \h23, \h33} ->
            [cpu    |-> set_r16(s, opcode, (get_r16(s, opcode) + 1) % 65536),
             cycles |-> 8]
      [] opcode \in {\h0B, \h1B, \h2B, \h3B} ->
            [cpu    |-> set_r16(s, opcode, (get_r16(s, opcode) - 1) % 65536),
             cycles |-> 8]
      [] opcode \in {\h04, \h0C, \h14, \h1C, \h24, \h2C, \h34, \h3C} ->
            LET reg == opcode \div 8
                r   == alu_inc(s, read_r8(s, reg))
            IN  [cpu    |-> write_r8(r.cpu, reg, r.result),
                 cycles |-> IF reg = 6 THEN 12 ELSE 4]
      [] opcode \in {\h05, \h0D, \h15, \h1D, \h25, \h2D, \h35, \h3D} ->
            LET reg == opcode \div 8
                r   == alu_dec(s, read_r8(s, reg))
            IN  [cpu    |-> write_r8(r.cpu, reg, r.result),
                 cycles |-> IF reg = 6 THEN 12 ELSE 4]
      [] opcode \in {\h06, \h0E, \h16, \h1E, \h26, \h2E, \h36, \h3E} ->
            LET reg == opcode \div 8
                fb  == fetch_byte(s)
            IN  [cpu    |-> write_r8(fb.cpu, reg, fb.byte),
                 cycles |-> IF reg = 6 THEN 12 ELSE 8]
      [] opcode \in {\h07, \h0F, \h17, \h1F} -> rotate_a(s, opcode)
      [] opcode = \h08 ->
            LET w == fetch_word(s) IN
            [cpu    |-> [w.cpu EXCEPT !.memory = write_word(@, w.word, s.sp)],
             cycles |-> 20]
      [] opcode \in {\h09, \h19, \h29, \h39} ->
            LET r == alu_add_hl(s, get_hl(s), get_r16(s, opcode)) IN
            [cpu |-> set_hl(r.cpu, r.result), cycles |-> 8]
      [] opcode = \h10 -> [cpu |-> fetch_byte(s).cpu, cycles |-> 4]
      [] opcode = \h27 -> [cpu |-> alu_daa(s), cycles |-> 4]
      [] opcode = \h2F ->
            [cpu    |-> [s EXCEPT !.a = 255 - @,
                                  !.f = [@ EXCEPT !.negative = TRUE, !.half_carry = TRUE]],
             cycles |-> 4]
      [] opcode = \h37 ->
            [cpu    |-> [s EXCEPT !.f = [@ EXCEPT !.negative = FALSE, !.half_carry = FALSE,
                                                  !.carry = TRUE]],
             cycles |-> 4]
      [] opcode = \h3F ->
            [cpu    |-> [s EXCEPT !.f = [@ EXCEPT !.negative = FALSE, !.half_carry = FALSE,
                                                  !.carry = ~@]],
             cycles |-> 4]
      [] opcode >= \h40 /\ opcode <= \h7F /\ opcode # OP_HALT ->
            LET src_reg == opcode % 8
                dst_reg == (opcode \div 8) % 8
            IN  [cpu    |-> write_r8(s, dst_reg, read_r8(s, src_reg)),
                 cycles |-> IF src_reg = 6 \/ dst_reg = 6 THEN 8 ELSE 4]
      [] opcode >= \h80 /\ opcode <= \hBF ->
            [cpu    |-> alu_op(s, opcode, read_r8(s, opcode % 8)),
             cycles |-> IF opcode % 8 = 6 THEN 8 ELSE 4]
      [] opcode \in {\hE6, \hEE, \hF6, \hFE} ->
            LET fb == fetch_byte(s) IN
            [cpu |-> alu_op(fb.cpu, opcode, fb.byte), cycles |-> 8]
      [] opcode \in {\hC2, \hCA, \hD2, \hDA} -> jp(s, cc_holds(s, opcode))
      [] opcode = \hC3 -> jp(s, TRUE)
      [] opcode = \hE9 -> [cpu |-> [s EXCEPT !.pc = get_hl(s)], cycles |-> 4]
      [] opcode \in {\hC7, \hCF, \hD7, \hDF, \hE7, \hEF, \hF7, \hFF} ->
            rst(s, opcode - \hC7)
      [] opcode = \hD9 -> reti(s)
      [] opcode = \hE0 ->
            LET fb == fetch_byte(s) IN
            [cpu    |-> [fb.cpu EXCEPT !.memory = write(@, \hFF00 + fb.byte, s.a)],
             cycles |-> 12]
      [] opcode = \hE2 ->
            [cpu |-> [s EXCEPT !.memory = write(@, \hFF00 + s.c, s.a)], cycles |-> 8]
      [] opcode = \hEA ->
            LET w == fetch_word(s) IN
            [cpu |-> [w.cpu EXCEPT !.memory = write(@, w.word, s.a)], cycles |-> 16]
      [] opcode = \hF0 ->
            LET fb == fetch_byte(s) IN
            [cpu    |-> [fb.cpu EXCEPT !.a = read(fb.cpu.memory, \hFF00 + fb.byte)],
             cycles |-> 12]
      [] opcode = \hF2 ->
            [cpu |-> [s EXCEPT !.a = read(s.memory, \hFF00 + s.c)], cycles |-> 8]
      [] opcode = \hFA ->
            LET w == fetch_word(s) IN
            [cpu |-> [w.cpu EXCEPT !.a = read(w.cpu.memory, w.word)], cycles |-> 16]
      [] opcode = \hF9 -> [cpu |-> [s EXCEPT !.sp = get_hl(s)], cycles |-> 8]

\* self.memory.update_timers(cycles); self.clock.tick(cycles) at the end of
\* step, with the raised observation
tick(s, cycles) ==
    LET m == update_timers(s.memory, cycles) IN
    [s EXCEPT !.memory = m,
              !.clock = clock_tick(@, cycles),
              !.raised = Bit(read(s.memory, IF_ADDR), 2) = 0 /\ Bit(read(m, IF_ADDR), 2) = 1]

\* the state handle_interrupts returns, with the chk observation taken
checked(s) ==
    LET hi == handle_interrupts([s EXCEPT !.irq = NoIrq, !.fetched = 0]) IN
    [cpu    |-> [hi.cpu EXCEPT !.chk = [ime    |-> hi.cpu.ime,
                                        halted |-> hi.cpu.halted,
                                        if_reg |-> read(hi.cpu.memory, IF_ADDR)]],
     cycles |-> hi.cycles]

\* step with the interrupt check moved behind the timer tick
step_irq_last(s) ==
    LET s0 == [s EXCEPT !.irq = NoIrq, !.fetched = 0]
        s1 == IF s0.halted
              THEN [cpu |-> tick(s0, 4), cycles |-> 4]
              ELSE LET fb == fetch_byte(s0)
                       ex == execute(fb.cpu, fb.byte)
                   IN  [cpu |-> tick(ex.cpu, ex.cycles), cycles |-> ex.cycles]
        hi == handle_interrupts(s1.cpu)
    IN  [cpu    |-> [hi.cpu EXCEPT !.chk = [ime    |-> hi.cpu.ime,
                                            halted |-> hi.cpu.halted,
                                            if_reg |-> read(hi.cpu.memory, IF_ADDR)]],
         cycles |-> s1.cycles + hi.cycles]

\* step whose halted branch returns 4 without advancing the timers
step_halt_no_tick(s) ==
    LET hi == checked(s) IN
    IF hi.cycles > 0
    THEN [cpu |-> tick(hi.cpu, hi.cycles), cycles |-> hi.cycles]
    ELSE IF hi.cpu.halted
    THEN [cpu |-> hi.cpu, cycles |-> 4]
    ELSE LET fb == fetch_byte(hi.cpu)
             ex == execute(fb.cpu, fb.byte)
         IN  [cpu |-> tick(ex.cpu, ex.cycles), cycles |-> ex.cycles]

\* step whose halted branch advances the timers and not the clock
step_halt_no_clock(s) ==
    LET hi == checked(s) IN
    IF hi.cycles > 0
    THEN [cpu |-> tick(hi.cpu, hi.cycles), cycles |-> hi.cycles]
    ELSE IF hi.cpu.halted
    THEN [cpu |-> [tick(hi.cpu, 4) EXCEPT !.clock = hi.cpu.clock], cycles |-> 4]
    ELSE LET fb == fetch_byte(hi.cpu)
             ex == execute(fb.cpu, fb.byte)
         IN  [cpu |-> tick(ex.cpu, ex.cycles), cycles |-> ex.cycles]

\* CPU::step
step(s) ==
    LET hi == checked(s) IN
    IF hi.cycles > 0
    THEN [cpu |-> tick(hi.cpu, hi.cycles), cycles |-> hi.cycles]
    ELSE IF hi.cpu.halted
    THEN [cpu |-> tick(hi.cpu, 4), cycles |-> 4]
    ELSE LET fb == fetch_byte(hi.cpu)
             ex == execute(fb.cpu, fb.byte)
         IN  [cpu |-> tick(ex.cpu, ex.cycles), cycles |-> ex.cycles]

\* CPU::get_ticks
get_ticks(s) == clock_get_ticks(s.clock)

\* the opcode byte a step() call on s fetches, or OP_NOP when it fetches none
next_opcode(s) ==
    LET hi == checked(s) IN
    IF hi.cycles > 0 \/ hi.cpu.halted THEN OP_NOP ELSE read(hi.cpu.memory, hi.cpu.pc)

(***************************************************************************)
(* Bounds and inputs.                                                      *)
(***************************************************************************)
MaxSteps == 5

\* stack pointers a program sets: HRAM, the two whose push reaches IF, one
\* whose push reaches ROM and wraps to IE, WRAM, and one that reaches TIMA/DIV
SPValues == {\hFFFE, \hFF10, \hFF11, \h0001, \hC002, \hFF06}

\* cartridge images: LD SP,d16 ; EI or DI ; HALT or NOP ; NOP ...
Program(spv, op1, op2) ==
    Put(Put(Put(Put(Put(Zeros, \h0100, OP_LD_SP), \h0101, spv % 256),
                \h0102, spv \div 256), \h0103, op1), \h0104, op2)

Programs ==
    {Program(spv, op1, op2) : spv \in SPValues, op1 \in {OP_EI, OP_DI},
                              op2 \in {OP_HALT, OP_NOP}}

\* bytes the host stores through get_memory_mut().write
HostWrites ==
    ({IE_ADDR} \X {\h05, \h1F, \hE0})
    \cup ({IF_ADDR} \X {\h01, \h04, \h14, \hE0})
    \cup ({TAC_ADDR} \X {\h05})
    \cup ({TIMA_ADDR} \X {\hFF})

\* cycle counts step() returns, the arguments of update_timers
CycleCounts == {4, 8, 12, 16, 20, 24}

\* T-cycles ticked in one run of the timer specifications
MaxCycles == 1100

(***************************************************************************)
(* Aborts.  The places of step() where a build with overflow checks can    *)
(* panic: an index into one of the fixed arrays of Memory, a sum written   *)
(* with + on u8, u16 or u32, and the unreachable!() arms of the matches on *)
(* the interrupt bit, on the register number and on the clock select.      *)
(***************************************************************************)
\* the arrays of struct Memory
BOOT_ROM_LEN == 256
VRAM_LEN     == 8192
WRAM_LEN     == 8192
OAM_LEN      == 160
HRAM_LEN     == 127
IO_LEN       == 128

\* array_index with the HRAM arm indexing from the start of the I/O page
array_index_hram_from_io(addr) ==
    CASE addr <= \h00FF -> [len |-> BOOT_ROM_LEN, index |-> addr]
      [] addr >= \h0100 /\ addr <= \h7FFF -> [len |-> 1, index |-> 0]
      [] addr >= \h8000 /\ addr <= \h9FFF -> [len |-> VRAM_LEN, index |-> addr - \h8000]
      [] addr >= \hA000 /\ addr <= \hBFFF -> [len |-> 1, index |-> 0]
      [] addr >= \hC000 /\ addr <= \hDFFF -> [len |-> WRAM_LEN, index |-> addr - \hC000]
      [] addr >= \hE000 /\ addr <= \hFDFF -> [len |-> WRAM_LEN, index |-> addr - \hE000]
      [] addr >= \hFE00 /\ addr <= \hFE9F -> [len |-> OAM_LEN, index |-> addr - \hFE00]
      [] addr >= \hFEA0 /\ addr <= \hFEFF -> [len |-> 1, index |-> 0]
      [] addr >= \hFF00 /\ addr <= \hFF7F -> [len |-> IO_LEN, index |-> addr - \hFF00]
      [] addr >= \hFF80 /\ addr <= \hFFFE -> [len |-> HRAM_LEN, index |-> addr - \hFF00]
      [] addr = \hFFFF -> [len |-> 1, index |-> 0]

\* the array the arm of Memory::read and Memory::write for addr indexes, by
\* its length, and the index the arm computes; the cartridge is a Vec read
\* with get, and an arm that indexes nothing counts as index 0 of 1
array_index(addr) ==
    CASE addr <= \h00FF -> [len |-> BOOT_ROM_LEN, index |-> addr]
      [] addr >= \h0100 /\ addr <= \h7FFF -> [len |-> 1, index |-> 0]
      [] addr >= \h8000 /\ addr <= \h9FFF -> [len |-> VRAM_LEN, index |-> addr - \h8000]
      [] addr >= \hA000 /\ addr <= \hBFFF -> [len |-> 1, index |-> 0]
      [] addr >= \hC000 /\ addr <= \hDFFF -> [len |-> WRAM_LEN, index |-> addr - \hC000]
      [] addr >= \hE000 /\ addr <= \hFDFF -> [len |-> WRAM_LEN, index |-> addr - \hE000]
      [] addr >= \hFE00 /\ addr <= \hFE9F -> [len |-> OAM_LEN, index |-> addr - \hFE00]
      [] addr >= \hFEA0 /\ addr <= \hFEFF -> [len |-> 1, index |-> 0]
      [] addr >= \hFF00 /\ addr <= \hFF7F -> [len |-> IO_LEN, index |-> addr - \hFF00]
      [] addr >= \hFF80 /\ addr <= \hFFFE -> [len |-> HRAM_LEN, index |-> addr - \hFF80]
      [] addr = \hFFFF -> [len |-> 1, index |-> 0]

\* Memory::read or Memory::write of addr indexes out of range
access_aborts(addr) ==
    LET ai == array_index(addr) IN ai.index < 0 \/ ai.index >= ai.len

\* a sum x written with + does not fit the unsigned type of width bits
add_aborts(width, x) == x \div (2 ^ (width \div 2)) >= 2 ^ (width \div 2)

\* the + sums of alu_inc, alu_add, alu_adc and alu_sbc on A and value
alu_aborts(s, value) ==
    LET carry == carry_in(s) IN
    \/ add_aborts(8, (value % 16) + 1)
    \/ add_aborts(8, (s.a % 16) + (value % 16))
    \/ add_aborts(16, s.a + value)
    \/ add_aborts(8, (s.a % 16) + (value % 16) + carry)
    \/ add_aborts(16, s.a + value + carry)
    \/ add_aborts(8, (value % 16) + carry)
    \/ add_aborts(16, value + carry)

\* the + sums of alu_add_hl
add_hl_aborts(s, value) ==
    \/ add_aborts(16, (get_hl(s) % 4096) + (value % 4096))
    \/ add_aborts(32, get_hl(s) + value)

\* the + sums of ADD SP,r8 and LD HL,SP+r8
sp_offset_aborts(s, offset) ==
    \/ add_aborts(16, (s.sp % 16) + (signed_offset(offset) % 16))
    \/ add_aborts(16, (s.sp % 256) + (signed_offset(offset) % 256))

\* the addresses a step() on s can hand to Memory::read or Memory::write:
\* the instruction bytes, the stack, the register pairs, the high page and
\* the 16-bit operand
touched(s) ==
    LET d8  == read(s.memory, (s.pc + 1) % 65536)
        a16 == read(s.memory, (s.pc + 2) % 65536) * 256 + d8
    IN  {(s.pc + n) % 65536 : n \in 0..2}
        \cup {(s.sp + n) % 65536 : n \in {65534, 65535, 0, 1}}
        \cup {get_bc(s), get_de(s), get_hl(s), \hFF00 + s.c, \hFF00 + d8,
              a16, (a16 + 1) % 65536, IE_ADDR, IF_ADDR,
              DIV_ADDR, TIMA_ADDR, TMA_ADDR, TAC_ADDR}

\* a step() on s reaches an unreachable!() arm: the vector of an interrupt
\* bit above 4, a register number above 7, a clock select above 3
unreachable_aborts(s) ==
    LET hi     == handle_interrupts(s)
        opcode == read(s.memory, s.pc)
        cb_op  == read(s.memory, (s.pc + 1) % 65536)
    IN  \/ hi.cycles > 0 /\ hi.cpu.irq \notin 0..4
        \/ ~({And(opcode, 7), And(opcode \div 8, 7), And(cb_op, 7)} \subseteq 0..7)
        \/ And(read(s.memory, TAC_ADDR), 3) \notin 0..3

\* a step() on s panics
step_aborts(s) ==
    LET d8 == read(s.memory, (s.pc + 1) % 65536) IN
    \/ \E addr \in touched(s) : access_aborts(addr)
    \/ \E value \in {read_r8(s, reg) : reg \in 0..7} \cup {d8} : alu_aborts(s, value)
    \/ \E value \in {get_bc(s), get_de(s), get_hl(s), s.sp} : add_hl_aborts(s, value)
    \/ sp_offset_aborts(s, d8)
    \/ add_aborts(16, \hFF00 + d8)
    \/ add_aborts(16, \hFF00 + s.c)
    \/ unreachable_aborts(s)

(***************************************************************************)
(* GPU.  Of the GPU only the cycle counter is kept: the framebuffer is     *)
(* written by render_screen, which reads the memory and writes none of it. *)
(***************************************************************************)
\* cycles of one frame
FRAME_CYCLES == 70224

\* GPU::new
GPUNew == [cycles |-> 0]

\* GPU::step with the frame ended only once the count is past its length
gpu_step_gt(g, cycles, mem) ==
    LET count == g.cycles + cycles IN
    IF count > FRAME_CYCLES
    THEN [gpu    |-> [g EXCEPT !.cycles = 0],
          memory |-> write(mem, IF_ADDR, Or(read(mem, IF_ADDR), \h01))]
    ELSE [gpu |-> [g EXCEPT !.cycles = count], memory |-> mem]

\* GPU::step
gpu_step(g, cycles, mem) ==
    LET count == g.cycles + cycles IN
    IF count >= FRAME_CYCLES
    THEN [gpu    |-> [g EXCEPT !.cycles = 0],
          memory |-> write(mem, IF_ADDR, Or(read(mem, IF_ADDR), \h01))]
    ELSE [gpu |-> [g EXCEPT !.cycles = count], memory |-> mem]

(***************************************************************************)
(* State.  cpu is the machine (the CPU owns its Memory); ret is the value  *)
(* the last step() call returned, 0 before the first; steps counts the     *)
(* calls of step() since the host last set the machine up.                 *)
(* Three more variables keep the history the timer claims speak of: ticked *)
(* is the number of T-cycles passed to update_timers since Init,           *)
(* div_cycles the number since the divider was last reset, and start holds *)
(* TIMA and IF as they were at Init.  op is the last thing the host did in *)
(* the memory and joypad specifications (a write, a call of                *)
(* get_joypad_state, a key event), and input is the front-end's Input,     *)
(* which the emulation loop owns next to the CPU, as it owns gpu, the GPU. *)
(***************************************************************************)
VARIABLES cpu, ret, steps, ticked, div_cycles, start, op, input, gpu

vars == <<cpu, ret, steps, ticked, div_cycles, start, op, input, gpu>>

IE   == read(cpu.memory, IE_ADDR)
IF_  == read(cpu.memory, IF_ADDR)
DIV  == read(cpu.memory, DIV_ADDR)
TIMA == read(cpu.memory, TIMA_ADDR)
TMA  == read(cpu.memory, TMA_ADDR)
TAC  == read(cpu.memory, TAC_ADDR)

\* no memory access by the host yet
NoOp == [kind |-> "none", addr |-> 0, value |-> 0]

\* a key event of the front-end, which touches no memory
KeyOp == [kind |-> "key", addr |-> 0, value |-> 0]

\* no access made and no button held
Idle == op = NoOp /\ input = InputNew /\ gpu = GPUNew

NoHistory ==
    /\ ticked = 0
    /\ div_cycles = 0
    /\ start = [tima |-> 0, if_reg |-> 0]

\* CPU::new followed by load_rom
Init ==
    /\ \E prog \in Programs : cpu = [CPUNew EXCEPT !.memory = load_rom(@, prog)]
    /\ ret = 0
    /\ steps = 0
    /\ Idle
    /\ NoHistory

\* one call of cpu.step()
Step ==
    /\ steps < MaxSteps
    /\ next_opcode(cpu) \in Opcodes
    /\ \E r \in {step(cpu)} : cpu' = r.cpu /\ ret' = r.cycles
    /\ steps' = steps + 1
    /\ UNCHANGED <<ticked, div_cycles, start, op, input, gpu>>

\* cpu.get_memory_mut().write(addr, value)
HostWrite ==
    \E w \in HostWrites :
        /\ cpu' = [cpu EXCEPT !.memory = write(@, w[1], w[2])]
        /\ UNCHANGED <<ret, steps, ticked, div_cycles, start, op, input, gpu>>

Next == Step \/ HostWrite

Spec == Init /\ [][Next]_vars

\* every opcode byte fetched within the bounds is one execute is modelled for
FetchInScope == next_opcode(cpu) \in Opcodes

(***************************************************************************)
(* The timer alone: update_timers applied to a machine whose timer         *)
(* registers the host has programmed.                                      *)
(***************************************************************************)
\* cpu.get_memory_mut().update_timers(cycles)
Tick ==
    \E cycles \in CycleCounts :
        /\ ticked + cycles <= MaxCycles
        /\ cpu' = [cpu EXCEPT !.memory = update_timers(@, cycles)]
        /\ ticked' = ticked + cycles
        /\ div_cycles' = div_cycles + cycles
        /\ UNCHANGED <<ret, steps, start, op, input, gpu>>

\* cpu.get_memory_mut().write(0xFF04, value)
WriteDiv ==
    \E value \in {\h00, \h5A, \hFF} :
        /\ cpu' = [cpu EXCEPT !.memory = write(@, DIV_ADDR, value)]
        /\ div_cycles' = 0
        /\ op' = [kind |-> "write", addr |-> DIV_ADDR, value |-> value]
        /\ UNCHANGED <<ret, steps, ticked, start, input, gpu>>

\* a new machine whose TIMA, TMA, IF and then TAC the host has written
InitTimer ==
    /\ \E tac \in {\h03, \h04, \h05, \h06, \h07}, tima \in {\h00, \hFF},
          tma \in {\hAB, \hFF}, if_reg \in {\h00, \hE1} :
          /\ cpu = [CPUNew EXCEPT !.memory =
                       write(write(write(write(@, TIMA_ADDR, tima), TMA_ADDR, tma),
                                   IF_ADDR, if_reg), TAC_ADDR, tac)]
          /\ start = [tima |-> tima, if_reg |-> if_reg]
    /\ ret = 0
    /\ steps = 0
    /\ Idle
    /\ ticked = 0
    /\ div_cycles = 0

SpecTimer == InitTimer /\ [][Tick]_vars

\* T-cycles after which a never-reset divider shows 0xFF with its counter at 0
LateCycles == 255 * 256

\* a new machine, or one that has idled for LateCycles T-cycles (16320 steps
\* of 4 cycles with the timer disabled): DIV = 0xFF and div_counter = 0
InitDiv ==
    /\ \/ cpu = CPUNew /\ div_cycles = 0
       \/ cpu = [CPUNew EXCEPT !.memory.io = Put(@, 4, 255)] /\ div_cycles = LateCycles
    /\ ret = 0
    /\ steps = 0
    /\ Idle
    /\ ticked = 0
    /\ start = [tima |-> 0, if_reg |-> 0]

NextDiv == Tick \/ WriteDiv

SpecDiv == InitDiv /\ [][NextDiv]_vars

(***************************************************************************)
(* The memory map: a machine with a boot ROM and a cartridge loaded, whose *)
(* memory the host writes between calls of step().  The images hold NOPs   *)
(* where the CPU runs and differ from each other in the overlay region.    *)
(***************************************************************************)
\* CPU::load_boot_rom
cpu_load_boot_rom(s, boot_data) ==
    [s EXCEPT !.memory = load_boot_rom(@, boot_data), !.pc = \h0000]

\* CPU::load_rom
cpu_load_rom(s, rom_data) == [s EXCEPT !.memory = load_rom(@, rom_data)]

\* 256-byte boot images, by their non-zero bytes; byte 0 is DI or NOP
BootImages ==
    { Put(Put(Put(Zeros, \h00, OP_DI), \h80, \h3C), \hFF, \h50),
      Put(Put(Zeros, \h01, OP_EI), \hFF, \hE0) }

\* 32 KiB cartridge images, by their non-zero bytes; byte 0 is EI
CartImages ==
    { Put(Put(Put(Put(Put(Zeros, \h0000, OP_EI), \h00FF, \hA7), \h0100, \hC3),
              \h4000, \h99), \h7FFF, \h42) }

\* addresses the host writes: two or more in every region of the map
MemAddrs ==
    { \h0000, \h00FF, \h0100, \h7FFF, \hA000, \hBFFF, \hC000, \hDDFF,
      \hE000, \hFDFF, \hFE00, \hFE9F, \hFEA0, \hFEFF, DMA_ADDR, BOOT_ADDR }

\* values the host writes
MemValues == {\h00, \hC0}

InitMem ==
    /\ \E boot \in BootImages, cart \in CartImages :
          /\ cpu = cpu_load_rom(cpu_load_boot_rom(CPUNew, boot), cart)
          /\ start = [tima |-> 0, if_reg |-> 0, boot |-> boot, cart |-> cart]
    /\ ret = 0
    /\ steps = 0
    /\ Idle
    /\ ticked = 0
    /\ div_cycles = 0

\* cpu.get_memory_mut().write(addr, value)
MemWrite ==
    \E addr \in MemAddrs, value \in MemValues :
        /\ cpu' = [cpu EXCEPT !.memory = write(@, addr, value)]
        /\ op' = [kind |-> "write", addr |-> addr, value |-> value]
        /\ UNCHANGED <<ret, steps, ticked, div_cycles, start, input, gpu>>

NextMem == Step \/ MemWrite

SpecMem == InitMem /\ [][NextMem]_vars

(***************************************************************************)
(* The joypad: the program has written a selection to 0xFF00; the          *)
(* front-end presses and releases buttons, the program writes further      *)
(* selections, and get_joypad_state is called on the Input.                *)
(***************************************************************************)
\* values written to 0xFF00 and passed to get_joypad_state: the four
\* selections with the other bits clear, and with the other bits set
JoypValues == {\h00, \h10, \h20, \h30, \hCF, \hDF, \hEF, \hFF}

InitJoypad ==
    /\ \E value \in JoypValues :
          /\ cpu = [CPUNew EXCEPT !.memory = write(@, JOYP_ADDR, value)]
          /\ op = [kind |-> "write", addr |-> JOYP_ADDR, value |-> value]
    /\ input = InputNew
    /\ gpu = GPUNew
    /\ ret = 0
    /\ steps = 0
    /\ NoHistory

\* the front-end's key event: self.<button> = pressed
Press ==
    \E b \in Buttons :
        /\ ~input[b]
        /\ input' = [input EXCEPT ![b] = TRUE]
        /\ op' = KeyOp
        /\ UNCHANGED <<cpu, ret, steps, ticked, div_cycles, start, gpu>>

Release ==
    \E b \in Buttons :
        /\ input[b]
        /\ input' = [input EXCEPT ![b] = FALSE]
        /\ op' = KeyOp
        /\ UNCHANGED <<cpu, ret, steps, ticked, div_cycles, start, gpu>>

\* cpu.get_memory_mut().write(0xFF00, value)
JoypWrite ==
    \E value \in JoypValues :
        /\ cpu' = [cpu EXCEPT !.memory = write(@, JOYP_ADDR, value)]
        /\ op' = [kind |-> "write", addr |-> JOYP_ADDR, value |-> value]
        /\ UNCHANGED <<ret, steps, ticked, div_cycles, start, input, gpu>>

\* input.get_joypad_state(joypad_register); op keeps the argument as addr
\* and the byte returned as value
JoypadState ==
    \E joypad_register \in JoypValues :
        /\ op' = [kind  |-> "joypad", addr |-> joypad_register,
                  value |-> get_joypad_state(input, joypad_register)]
        /\ UNCHANGED <<cpu, ret, steps, ticked, div_cycles, start, input, gpu>>

NextJoypad == Press \/ Release \/ JoypWrite \/ JoypadState

SpecJoypad == InitJoypad /\ [][NextJoypad]_vars

(***************************************************************************)
(* The flag conversions, applied to the F register of a new CPU as the     *)
(* round-trip tests apply them: a byte into a FlagsRegister, and the       *)
(* FlagsRegister into a byte.                                              *)
(***************************************************************************)
\* let fr_struct: FlagsRegister = flags_register.into()
FromByte ==
    \E value \in 0..255 :
        /\ cpu' = [cpu EXCEPT !.f = from_byte(value)]
        /\ op' = [kind |-> "from_byte", addr |-> 0, value |-> value]
        /\ UNCHANGED <<ret, steps, ticked, div_cycles, start, input, gpu>>

\* let fr_binary: u8 = fr_struct.clone().into()
ToByte ==
    /\ op' = [kind |-> "to_byte", addr |-> 0, value |-> to_byte(cpu.f)]
    /\ UNCHANGED <<cpu, ret, steps, ticked, div_cycles, start, input, gpu>>

InitFlags ==
    /\ cpu = CPUNew
    /\ ret = 0
    /\ steps = 0
    /\ Idle
    /\ NoHistory

NextFlags == FromByte \/ ToByte

SpecFlags == InitFlags /\ [][NextFlags]_vars

(***************************************************************************)
(* The timer-interrupt scenario: the machine runs a short setup program    *)
(* (NOPs, LD SP,d16, EI) with the timer still disabled; once IME is set    *)
(* the host programs TIMA=0xFF, TMA=0xAB, IE=0x04, IF=0 and TAC=0x05 and   *)
(* goes on calling step().  The rest of the cartridge is NOPs.             *)
(***************************************************************************)
\* NOPs that precede the setup program's LD SP
MaxLead == 3

\* stacks in HRAM and WRAM
StackValues == {\hFFFE, \hFFF0, \hFF90, \hE000, \hDFFF, \hD000, \hC100, \hC002}

\* lead NOPs ; LD SP,spv ; EI ; NOP ...
SetupProgram(lead, spv) ==
    Put(Put(Put(Put(Zeros, \h0100 + lead, OP_LD_SP), \h0101 + lead, spv % 256),
            \h0102 + lead, spv \div 256), \h0103 + lead, OP_EI)

\* CPU::new followed by load_rom of a setup program
InitTimerIrq ==
    /\ \E lead \in 0..MaxLead, spv \in StackValues :
          cpu = [CPUNew EXCEPT !.memory = load_rom(@, SetupProgram(lead, spv))]
    /\ ret = 0
    /\ steps = 0
    /\ Idle
    /\ NoHistory

\* the host's five register writes, made once the program has enabled
\* interrupts; the host counts its calls of step() afresh from here
ProgramTimer ==
    /\ cpu.ime
    /\ TAC = 0
    /\ cpu' = [cpu EXCEPT !.memory =
                  write(write(write(write(write(@, TIMA_ADDR, \hFF), TMA_ADDR, \hAB),
                                    IE_ADDR, \h04), IF_ADDR, \h00), TAC_ADDR, \h05)]
    /\ steps' = 0
    /\ UNCHANGED <<ret, ticked, div_cycles, start, op, input, gpu>>

NextTimerIrq == Step \/ ProgramTimer

\* the host loop calls step() again as long as the step budget lasts
Called == steps < MaxSteps /\ steps' = steps + 1

SpecTimerIrq == InitTimerIrq /\ [][NextTimerIrq]_vars /\ WF_steps(Called)

(***************************************************************************)
(* Properties.                                                             *)
(***************************************************************************)
IsStep == steps' = steps + 1

\* the scenario's starting condition
Armed ==
    /\ TAC = \h05 /\ TIMA = \hFF /\ TMA = \hAB /\ IE = \h04 /\ IF_ = 0
    /\ cpu.ime
    /\ ~cpu.halted

IsTick == ticked' > ticked

\* the transition is a write the host made (op' tells its address and value)
IsWrite == op'.kind = "write" /\ ticked' = ticked /\ steps' = steps

\* the byte read at 0xFF00; its bits 5..4 are the selection last written
JOYP == read(cpu.memory, JOYP_ADDR)

\* the low bit each button drives, and the two groups
ButtonBit ==
    [ start |-> 3, select |-> 2, b |-> 1, a |-> 0,
      down  |-> 3, up     |-> 2, left |-> 1, right |-> 0 ]

ButtonKeys == {"start", "select", "b", "a"}

\* the button's group is selected: bit 5 = 0 for the button keys, bit 4 = 0
\* for the direction keys
Selected(reg, b) == IF b \in ButtonKeys THEN Bit(reg, 5) = 0 ELSE Bit(reg, 4) = 0

\* some pressed button of a selected group drives bit n low
Driven(inp, reg, n) ==
    \E b \in Buttons : inp[b] /\ ButtonBit[b] = n /\ Selected(reg, b)

\* the JOYP byte of the joypad read policy
Composed(inp, reg) ==
    128 + 64 + 32 * Bit(reg, 5) + 16 * Bit(reg, 4)
    + 8 * (IF Driven(inp, reg, 3) THEN 0 ELSE 1)
    + 4 * (IF Driven(inp, reg, 2) THEN 0 ELSE 1)
    + 2 * (IF Driven(inp, reg, 1) THEN 0 ELSE 1)
    + (IF Driven(inp, reg, 0) THEN 0 ELSE 1)

\* overlay addresses that are read: the ends of the region and every
\* address where an image holds a non-zero byte
OverlayAddrs == {\h00, \h01, \h02, \h7F, \h80, \hFE, \hFF}

\* reads of 0x0000..0x00FF return the boot image / the cartridge image
Shown  == \A a \in OverlayAddrs : read(cpu.memory, a) = Get(start.boot, a)
Hidden == \A a \in OverlayAddrs : read(cpu.memory, a) = Get(start.cart, a)

\* echo RAM, cartridge, prohibited and external-RAM addresses that are read
EchoAddrs == {\hE000, \hE001, \hF000, \hFDFE, \hFDFF}
RomAddrs  == {\h0100, \h0101, \h3FFF, \h4000, \h7FFE, \h7FFF}
OpenAddrs == (\hFEA0..\hFEFF) \cup {\hA000, \hA001, \hB000, \hBFFE, \hBFFF}

\* the interrupt sources that are requested and enabled, bits 0..4
Pending == And(And(IE, IF_), \h1F)

\* the priority order: VBlank, STAT, Timer, Serial, Joypad
Lowest(p) ==
    IF Bit(p, 0) = 1 THEN 0
    ELSE IF Bit(p, 1) = 1 THEN 1
    ELSE IF Bit(p, 2) = 1 THEN 2
    ELSE IF Bit(p, 3) = 1 THEN 3
    ELSE 4

\* 0x40 VBlank, 0x48 STAT, 0x50 Timer, 0x58 Serial, 0x60 Joypad
Vector(bit) == \h0040 + 8 * bit

\* one of the two bytes push_stack stores from the current SP lands on IF
PushHitsIF ==
    (cpu.sp - 1) % 65536 = IF_ADDR \/ (cpu.sp - 2) % 65536 = IF_ADDR

\* the 8-bit registers, the flags and SP
Regs(s) == <<s.a, s.f, s.b, s.c, s.d, s.e, s.h, s.l, s.sp>>

\* the T-cycles per TIMA increment that TAC bits 1..0 select
ClaimedThreshold(tac) ==
    CASE tac % 4 = 0 -> 1024
      [] tac % 4 = 1 -> 16
      [] tac % 4 = 2 -> 64
      [] tac % 4 = 3 -> 256

\* TIMA after k increments from t with reload value tma
RECURSIVE Incremented(_, _, _)
Incremented(t, tma, k) ==
    IF k = 0 THEN t ELSE Incremented(IF t = 255 THEN tma ELSE t + 1, tma, k - 1)

(***************************************************************************)
(* C10: the visible DIV byte is the high byte of a divider counting every  *)
(* T-cycle: after ticks totalling N T-cycles since the last reset (machine *)
(* creation or a write to 0xFF04), read(0xFF04) = floor(N / 256) mod 256,  *)
(* however N is split into per-step cycle counts.                          *)
(***************************************************************************)
C10_DivHighByte == DIV = (div_cycles \div 256) % 256

\* the divider has wrapped from 0xFF to 0x00 and counted on
C10_Witness == div_cycles > 65536 + 256 /\ DIV = 1

(***************************************************************************)
(* C11: a write of any value v to 0xFF04 sets the visible DIV byte to 0    *)
(* and the internal divider counter to 0 and changes nothing else, so v is *)
(* not stored; DIV then stays 0 for the next 255 T-cycles and reads 1 once *)
(* 256 T-cycles have been ticked.                                          *)
(***************************************************************************)
C11_DivWrite ==
    /\ [][ (IsWrite /\ op'.addr = DIV_ADDR)
           => /\ DIV' = 0
              /\ cpu'.memory.div_counter = 0
              /\ cpu'.memory = [cpu.memory EXCEPT !.io = Put(@, 4, 0),
                                                  !.div_counter = 0] ]_vars
    /\ [](op.kind = "write" /\ div_cycles < 256 => DIV = 0)
    /\ [](op.kind = "write" /\ div_cycles >= 256 /\ div_cycles < 512 => DIV = 1)

\* a non-zero value was written over a non-zero DIV, and 256 T-cycles later
\* DIV has made its next increment
C11_Witness ==
    /\ op.kind = "write" /\ op.value = \h5A
    /\ ticked >= div_cycles + 256
    /\ div_cycles >= 256
    /\ DIV = 1

(***************************************************************************)
(* C7: with TAC constant and bit 2 set, from a zero internal timer         *)
(* counter, after ticks totalling N T-cycles TIMA has been incremented     *)
(* exactly floor(N / threshold) times, threshold being 1024, 16, 64, 256   *)
(* for TAC bits 1..0 = 00, 01, 10, 11 (an increment of 0xFF reloads TMA    *)
(* and requests the timer interrupt); with bit 2 clear, ticks change       *)
(* neither TIMA nor IF.                                                    *)
(***************************************************************************)
C7_TimaCount ==
    LET k == ticked \div ClaimedThreshold(TAC) IN
    IF Bit(TAC, 2) = 1
    THEN /\ TIMA = Incremented(start.tima, TMA, k)
         /\ IF_ = (IF k >= 256 - start.tima THEN Or(start.if_reg, 4) ELSE start.if_reg)
    ELSE /\ TIMA = start.tima
         /\ IF_ = start.if_reg

\* the slowest clock (threshold 1024) has produced its first increment
C7_Witness == TAC = \h04 /\ ticked >= 1024 /\ start.tima = 0 /\ TIMA = 1

(***************************************************************************)
(* C6: when the timer is enabled and a TIMA increment occurs while         *)
(* TIMA = 0xFF, TIMA is loaded with the current TMA (not left at the       *)
(* wrapped 0x00) and bit 2 of IF is set, all other IF bits unchanged; an   *)
(* increment with TIMA < 0xFF adds 1 and leaves IF unchanged.  Stated of   *)
(* the ticks that make exactly one increment.                              *)
(***************************************************************************)
C6_TimaOverflow ==
    [][ (/\ IsTick
         /\ Bit(TAC, 2) = 1
         /\ ticked' \div ClaimedThreshold(TAC) = (ticked \div ClaimedThreshold(TAC)) + 1)
        => IF TIMA = \hFF
           THEN TIMA' = TMA /\ IF_' = Or(IF_, 4)
           ELSE TIMA' = TIMA + 1 /\ IF_' = IF_ ]_vars

\* TIMA has overflowed once: it holds TMA and the timer interrupt is requested
C6_Witness ==
    /\ Bit(TAC, 2) = 1
    /\ start.tima = \hFF /\ start.if_reg = \hE1
    /\ TMA = \hAB /\ TIMA = \hAB
    /\ IF_ = \hE5

(***************************************************************************)
(* C1: whenever step() services an interrupt (IME true and a bit 0..4 set  *)
(* in IE & IF), on return IME is false, the serviced bit of IF reads zero, *)
(* SP is the previous SP minus 2 (mod 2^16) and PC is the vector of the    *)
(* serviced source, for every prior SP and PC, also when the push targets  *)
(* an I/O register or ROM.  This is the claim as stated.                   *)
(***************************************************************************)
C1_Stated ==
    [][ (IsStep /\ cpu.ime /\ Pending # 0)
        => /\ cpu'.irq = Lowest(Pending)
           /\ ~cpu'.ime
           /\ Bit(IF_', Lowest(Pending)) = 0
           /\ cpu'.sp = (cpu.sp - 2) % 65536
           /\ cpu'.pc = Vector(Lowest(Pending)) ]_vars

(***************************************************************************)
(* C1, amended: IME false, SP minus 2 and PC at the vector hold for every  *)
(* prior SP and PC; the serviced bit of IF reads zero on return unless one *)
(* of the two pushed bytes is stored to 0xFF0F itself (SP = 0xFF10 or      *)
(* 0xFF11) or the serviced source is the timer and the timer tick that     *)
(* ends the same step overflows TIMA and requests it again.                *)
(***************************************************************************)
C1_Dispatch ==
    [][ (IsStep /\ cpu.ime /\ Pending # 0)
        => /\ cpu'.irq = Lowest(Pending)
           /\ ~cpu'.ime
           /\ cpu'.sp = (cpu.sp - 2) % 65536
           /\ cpu'.pc = Vector(Lowest(Pending))
           /\ (~PushHitsIF /\ ~(Lowest(Pending) = 2 /\ cpu'.raised)
                 => Bit(IF_', Lowest(Pending)) = 0) ]_vars

\* a dispatch whose push went to ROM and wrapped around to IE (SP was 0x0001)
C1_Witness ==
    /\ cpu.irq # NoIrq
    /\ cpu.sp = \hFFFF
    /\ cpu.pc = Vector(cpu.irq)
    /\ ~cpu.ime
    /\ Bit(IF_, cpu.irq) = 0

C3_OnlyLowFiveBits ==
    [][ (IsStep /\ Pending = 0)
        => /\ cpu'.irq = NoIrq
           /\ cpu'.chk.ime = cpu.ime
           /\ cpu'.chk.halted = cpu.halted ]_vars

(***************************************************************************)
(* C4: within one step() the order is interrupt check, halt check, fetch   *)
(* and execute, timer tick: the interrupt a step services was requested    *)
(* and enabled when the step was entered, a servicing step and a halted    *)
(* step fetch nothing, and an IF bit raised by the timer tick that ends    *)
(* step k is still set on return from step k and is what the interrupt     *)
(* check of step k+1 sees.                                                 *)
(***************************************************************************)
C4_StepOrder ==
    [][ IsStep
        => /\ (cpu'.irq # NoIrq
                 => /\ Bit(And(IE, IF_), cpu'.irq) = 1
                    /\ cpu.ime
                    /\ cpu'.fetched = 0
                    /\ ret' = 20)
           /\ (cpu'.irq = NoIrq /\ cpu'.chk.halted => cpu'.fetched = 0 /\ ret' = 4)
           /\ (cpu'.irq = NoIrq /\ ~cpu'.chk.halted => cpu'.fetched >= 1)
           /\ (cpu'.raised => Bit(IF_', 2) = 1)
           /\ (cpu.raised /\ cpu.ime /\ Pending # 0 /\ Lowest(Pending) = 2
                 => cpu'.irq = 2) ]_vars

\* the tick of the last step raised the timer request with the timer
\* interrupt enabled and IME set, and that step serviced nothing
C4_Witness ==
    /\ cpu.raised
    /\ cpu.irq = NoIrq
    /\ cpu.ime
    /\ Bit(IE, 2) = 1
    /\ Bit(IF_, 2) = 1
    /\ steps < MaxSteps

(***************************************************************************)
(* C5: starting with TAC=0x05, TIMA=0xFF, TMA=0xAB, IE=0x04, IME=true,     *)
(* IF=0 and a program of NOPs, repeated step() eventually overflows TIMA   *)
(* (TIMA becomes 0xAB and IF bit 2 is set), and the interrupt is then      *)
(* serviced: IF bit 2 is cleared, the interrupted PC is pushed and         *)
(* PC=0x0050.                                                              *)
(***************************************************************************)
C5_TimerInterrupt ==
    /\ Armed ~> (TIMA = \hAB /\ Bit(IF_, 2) = 1)
    /\ (TIMA = \hAB /\ Bit(IF_, 2) = 1)
          ~> (cpu.irq = 2 /\ Bit(IF_, 2) = 0 /\ cpu.pc = \h0050)
    /\ [][ (IsStep /\ Bit(IF_, 2) = 1)
           => /\ cpu'.irq = 2
              /\ Bit(IF_', 2) = 0
              /\ cpu'.sp = (cpu.sp - 2) % 65536
              /\ read_word(cpu'.memory, cpu'.sp) = cpu.pc
              /\ cpu'.pc = \h0050 ]_vars

\* the timer interrupt has been serviced and the interrupted PC is on the stack
C5_Witness ==
    /\ cpu.irq = 2
    /\ cpu.pc = \h0050
    /\ Bit(IF_, 2) = 0
    /\ TIMA = \hAC
    /\ read_word(cpu.memory, cpu.sp) >= \h0106

(***************************************************************************)
(* C8: while halted is true and IE & IF = 0, every step() returns 4,       *)
(* leaves PC and all registers unchanged, keeps halted true and fetches    *)
(* nothing, yet still advances the timers (DIV/TIMA) by 4 T-cycles.        *)
(***************************************************************************)
C8_HaltIdle ==
    [][ (IsStep /\ cpu.halted /\ And(IE, IF_) = 0)
        => /\ ret' = 4
           /\ cpu'.pc = cpu.pc
           /\ Regs(cpu') = Regs(cpu)
           /\ cpu'.ime = cpu.ime
           /\ cpu'.halted
           /\ cpu'.fetched = 0
           /\ 256 * DIV' + cpu'.memory.div_counter
                 = (256 * DIV + cpu.memory.div_counter + 4) % 65536
           /\ (Bit(TAC, 2) = 1
                 => cpu'.memory.timer_counter
                       = (cpu.memory.timer_counter + 4) % ClaimedThreshold(TAC))
           /\ cpu'.memory = update_timers(cpu.memory, 4) ]_vars

\* a halted machine has idled through a step with its timer running
C8_Witness ==
    /\ steps > 0
    /\ cpu.halted
    /\ cpu.fetched = 0
    /\ cpu.irq = NoIrq
    /\ ret = 4
    /\ And(IE, IF_) = 0
    /\ Bit(TAC, 2) = 1
    /\ cpu.memory.timer_counter = 4

(***************************************************************************)
(* C9: when step() is entered with halted true and (IE & IF) nonzero,      *)
(* halted is cleared; if IME is true the interrupt is serviced in that     *)
(* step (20 cycles, no fetch), and if IME is false no interrupt is         *)
(* serviced, the interrupt check leaves IF unchanged and execution resumes *)
(* by fetching the instruction following HALT.                             *)
(***************************************************************************)
C9_HaltWake ==
    [][ (IsStep /\ cpu.halted /\ And(IE, IF_) # 0)
        => /\ ~cpu'.chk.halted
           /\ (cpu.ime => cpu'.irq # NoIrq /\ ret' = 20 /\ cpu'.fetched = 0)
           /\ (~cpu.ime
                 => /\ cpu'.irq = NoIrq
                    /\ cpu'.chk.if_reg = IF_
                    /\ cpu'.fetched >= 1
                    /\ cpu'.pc = (cpu.pc + cpu'.fetched) % 65536) ]_vars

(***************************************************************************)
(* C12: echo RAM is an alias of work RAM: a write of v to an address a in  *)
(* 0xE000..0xFDFF makes read(a) and read(a - 0x2000) return v, a write of  *)
(* v to a - 0x2000 makes read(a) return v, and at all times read(a) equals *)
(* read(a - 0x2000).                                                       *)
(***************************************************************************)
C12_EchoAlias ==
    /\ [][ (IsWrite /\ op'.addr >= \hE000 /\ op'.addr <= \hFDFF)
           => /\ read(cpu'.memory, op'.addr) = op'.value
              /\ read(cpu'.memory, op'.addr - \h2000) = op'.value ]_vars
    /\ [][ (IsWrite /\ op'.addr >= \hC000 /\ op'.addr <= \hDDFF)
           => read(cpu'.memory, op'.addr + \h2000) = op'.value ]_vars
    /\ [](\A a \in EchoAddrs : read(cpu.memory, a) = read(cpu.memory, a - \h2000))

\* a non-zero byte written to the last echo address is read back from WRAM
C12_Witness ==
    /\ op = [kind |-> "write", addr |-> \hFDFF, value |-> \hC0]
    /\ read(cpu.memory, \hDDFF) = \hC0
    /\ read(cpu.memory, \hFDFF) = \hC0

(***************************************************************************)
(* C13: with a boot ROM loaded, reads of 0x0000..0x00FF return the boot    *)
(* ROM bytes before any write; they go on doing so across every step and   *)
(* every write other than a non-zero write to 0xFF50, a write of zero to   *)
(* 0xFF50 included; after a write of a non-zero value to 0xFF50 they       *)
(* return the cartridge bytes.                                             *)
(***************************************************************************)
C13_BootOverlay ==
    /\ [](op = NoOp => Shown)
    /\ [][ (Shown /\ ~(IsWrite /\ op'.addr = BOOT_ADDR /\ op'.value # 0))
           => Shown' ]_vars
    /\ [][ (IsWrite /\ op'.addr = BOOT_ADDR /\ op'.value # 0) => Hidden' ]_vars

\* the overlay survived a write of zero to 0xFF50 made after some steps
C13_Witness ==
    /\ op = [kind |-> "write", addr |-> BOOT_ADDR, value |-> 0]
    /\ steps > 0
    /\ Shown
    /\ ~Hidden

(***************************************************************************)
(* C14: disabling the boot overlay is permanent: once reads of             *)
(* 0x0000..0x00FF return the cartridge bytes, they do so after every later *)
(* write (a write of 0 to 0xFF50 included) and every later CPU step with   *)
(* its timer tick.                                                         *)
(***************************************************************************)
C14_OverlayRetired == [][Hidden => Hidden']_vars

\* zero was written to 0xFF50 after the overlay had been disabled
C14_Witness ==
    /\ op = [kind |-> "write", addr |-> BOOT_ADDR, value |-> 0]
    /\ read(cpu.memory, BOOT_ADDR) = 0
    /\ Hidden
    /\ ~Shown
    /\ steps > 1

(***************************************************************************)
(* C15: a write of v to 0xFF46 performs an OAM DMA: right after it, for    *)
(* every i in 0..159, read(0xFE00 + i) = read(v * 256 + i).                *)
(***************************************************************************)
C15_OamDma ==
    [][ (IsWrite /\ op'.addr = DMA_ADDR)
        => \A i \in 0..159 :
              read(cpu'.memory, \hFE00 + i) = read(cpu'.memory, op'.value * 256 + i) ]_vars

(***************************************************************************)
(* C16: cartridge ROM is immutable after load: a write to an address in    *)
(* 0x0000..0x7FFF changes no memory state, and across all writes and CPU   *)
(* steps read(a) for a in 0x0100..0x7FFF returns the loaded ROM byte.      *)
(***************************************************************************)
C16_RomImmutable ==
    /\ [][ (IsWrite /\ op'.addr <= \h7FFF) => cpu'.memory = cpu.memory ]_vars
    /\ [](\A a \in RomAddrs : read(cpu.memory, a) = Get(start.cart, a))

\* a non-zero byte was written over a different cartridge byte
C16_Witness ==
    /\ op = [kind |-> "write", addr |-> \h7FFF, value |-> \hC0]
    /\ read(cpu.memory, \h7FFF) = \h42
    /\ steps > 0

(***************************************************************************)
(* C17: every address of the prohibited region 0xFEA0..0xFEFF and of       *)
(* external RAM 0xA000..0xBFFF reads 0xFF in every reachable state, and a  *)
(* write to such an address changes no memory state (write is defined      *)
(* there: no error).                                                       *)
(***************************************************************************)
C17_OpenBus ==
    /\ [](\A a \in OpenAddrs : read(cpu.memory, a) = \hFF)
    /\ [][ (IsWrite /\ (  (op'.addr >= \hFEA0 /\ op'.addr <= \hFEFF)
                        \/ (op'.addr >= \hA000 /\ op'.addr <= \hBFFF)))
           => cpu'.memory = cpu.memory ]_vars

\* bytes were written to external RAM and to the prohibited region
C17_Witness ==
    /\ op = [kind |-> "write", addr |-> \hFEA0, value |-> \h00]
    /\ read(cpu.memory, \hFEA0) = \hFF
    /\ read(cpu.memory, \hA000) = \hFF
    /\ steps > 0

(***************************************************************************)
(* C18: a read of 0xFF00 reflects the live button state: with the          *)
(* button's group selected by the selection bits last written, pressing a  *)
(* button makes its low bit of read(0xFF00) 0, and releasing it makes the  *)
(* bit 1 (no other pressed button of a selected group driving that bit),   *)
(* with no write to 0xFF00 in between.                                     *)
(***************************************************************************)
C18_JoypadLive ==
    [][ \A b \in Buttons :
           Selected(JOYP, b)
           => /\ (~input[b] /\ input'[b]) => Bit(JOYP', ButtonBit[b]) = 0
              /\ (input[b] /\ ~input'[b] /\ ~Driven(input', JOYP, ButtonBit[b]))
                    => Bit(JOYP', ButtonBit[b]) = 1 ]_vars

(***************************************************************************)
(* C19: for every selection value and every combination of the eight       *)
(* buttons the composed JOYP byte has bits 7..6 = 1, bits 5..4 equal to    *)
(* the selection bits, and each of bits 3..0 equal to 0 exactly when a     *)
(* pressed button of a selected group drives it (the union when both       *)
(* groups are selected, all 1 when neither is).                            *)
(***************************************************************************)
C19_JoypadByte == op.kind = "joypad" => op.value = Composed(input, op.addr)

(***************************************************************************)
(* C20: flag conversion round-trips: to_byte(from_byte(b)) = b for every   *)
(* byte b with low nibble zero, from_byte(to_byte(f)) = f for every        *)
(* combination f of the four flags, and to_byte puts Z, N, H, C at bits    *)
(* 7, 6, 5, 4.                                                             *)
(***************************************************************************)
C20_FlagRoundTrip ==
    /\ [][ (op.kind = "from_byte" /\ op.value % 16 = 0 /\ op'.kind = "to_byte")
           => op'.value = op.value ]_vars
    /\ [][ (op.kind = "to_byte" /\ op'.kind = "from_byte" /\ op'.value = op.value)
           => cpu'.f = cpu.f ]_vars
    /\ [](op.kind = "to_byte"
            => /\ Bit(op.value, 7) = 1 <=> cpu.f.zero
               /\ Bit(op.value, 6) = 1 <=> cpu.f.negative
               /\ Bit(op.value, 5) = 1 <=> cpu.f.half_carry
               /\ Bit(op.value, 4) = 1 <=> cpu.f.carry
               /\ op.value % 16 = 0)

\* Z, H and C set convert to 0xB0
C20_Witness ==
    /\ op = [kind |-> "to_byte", addr |-> 0, value |-> \hB0]
    /\ cpu.f = [zero |-> TRUE, negative |-> FALSE, half_carry |-> TRUE, carry |-> TRUE]

(***************************************************************************)
(* C22: a newly created machine (no boot ROM) is in the post-boot state:   *)
(* A=0x01, F=0xB0 (Z=1, N=0, H=1, C=1), B=0x00, C=0x13, D=0x00, E=0xD8,    *)
(* H=0x01, L=0x4D, SP=0xFFFE, PC=0x0100, IME false, halted false.          *)
(***************************************************************************)
C22_PostBootState ==
    steps = 0
    => /\ cpu.a = \h01
       /\ to_byte(cpu.f) = \hB0
       /\ cpu.f = [zero |-> TRUE, negative |-> FALSE, half_carry |-> TRUE, carry |-> TRUE]
       /\ cpu.b = \h00 /\ cpu.c = \h13
       /\ cpu.d = \h00 /\ cpu.e = \hD8
       /\ cpu.h = \h01 /\ cpu.l = \h4D
       /\ cpu.sp = \hFFFE
       /\ cpu.pc = \h0100
       /\ ~cpu.ime
       /\ ~cpu.halted


(***************************************************************************)
(* Single instructions.  A preceding program has set the program counter,  *)
(* the stack pointer, the registers and the flags; the code under test     *)
(* lies at the program counter.  Code below 0x0100 is a boot image, code   *)
(* below 0x8000 a cartridge image, and code above is stored by write (a    *)
(* routine copied to HRAM).  Interrupts stay disabled.  start.machine is   *)
(* the machine as set up, before its first step.                           *)
(***************************************************************************)
\* one byte of an image handed to load_boot_rom or load_rom, or written to RAM
Store(mem, addr, value) ==
    IF addr <= \h00FF
    THEN load_boot_rom(mem, Put(mem.boot_rom, addr, value))
    ELSE IF addr < ROM_SIZE
    THEN load_rom(mem, Put(mem.rom, addr, value))
    ELSE write(mem, addr, value)

\* the bytes of code stored from addr on
RECURSIVE Place(_, _, _)
Place(mem, addr, code) ==
    IF code = <<>>
    THEN mem
    ELSE Place(Store(mem, addr, Head(code)), (addr + 1) % 65536, Tail(code))

\* CPU::new with the program counter at p, the stack pointer at spv and the
\* Z and C flags as given
Machine(p, spv, z, c) ==
    [CPUNew EXCEPT !.pc = p, !.sp = spv,
                   !.f = [FlagsInit EXCEPT !.zero = z, !.carry = c]]

\* the history of a machine m that is about to take its first step
Fresh(m) ==
    /\ ret = 0
    /\ steps = 0
    /\ Idle
    /\ ticked = 0
    /\ div_cycles = 0
    /\ start = [tima |-> 0, if_reg |-> 0, machine |-> m]

(***************************************************************************)
(* Control flow: JR, JR cc, CALL, CALL cc, RET, RET cc.                    *)
(***************************************************************************)
\* where the code under test lies: boot image, cartridge, HRAM
CodeAddrs == {\h0000, \h0100, \hFFF0}

\* the subroutine a CALL enters
SubAddr == \h0200

\* offsets of the conditional jumps
JrOffsets == {\h00, \h05, \h7F, \h80, \hFB, \hFE}

\* stack pointers of the calls: HRAM, WRAM, WRAM reached through its echo,
\* and one whose pushes fall into ROM
CallSPs == {\hFFFE, \hC002, \hE100, \h4000}

\* JR r8 with every offset, at each code address
JrMachines ==
    { [Machine(p, \hFFFE, FALSE, FALSE) EXCEPT !.memory = Place(@, p, <<\h18, r8>>)] :
        p \in CodeAddrs, r8 \in 0..255 }

\* JR cc,r8 under every combination of Z and C
JrCcMachines ==
    { [Machine(\h0100, \hFFFE, z, c) EXCEPT !.memory = Place(@, \h0100, <<opc, r8>>)] :
        opc \in JrCcOpcodes, r8 \in JrOffsets, z \in BOOLEAN, c \in BOOLEAN }

\* CALL or CALL cc to a subroutine that starts with RET or RET cc
CallMachines ==
    { [Machine(p, spv, z, c) EXCEPT
          !.memory = Place(Place(@, p, <<opc, SubAddr % 256, SubAddr \div 256>>),
                           SubAddr, <<rop>>)] :
        p \in {\h0000, \h0100}, spv \in CallSPs,
        opc \in {\hCD} \cup CallCcOpcodes, rop \in {\hC9} \cup RetCcOpcodes,
        z \in BOOLEAN, c \in BOOLEAN }

(***************************************************************************)
(* The stack: PUSH rr followed by POP rr', for every pair of register      *)
(* pairs, and POP AF of bytes a program has left on the stack followed by  *)
(* PUSH AF.                                                                *)
(***************************************************************************)
PushOpcodes == {\hC5, \hD5, \hE5, \hF5}
PopOpcodes  == {\hC1, \hD1, \hE1, \hF1}

\* stack pointers of the pushes: HRAM, WRAM, the two that wrap around 0, and
\* one whose pushes fall into ROM
PushSPs == {\hFFFE, \hC002, \h0000, \h0001, \h4000}

\* values of the register pair pushed
PairValues == {\h0000, \h1234, \h01B0, \hFF0F, \hABCD}

\* flag bytes of the machine that pushes AF
FlagBytes == {\h00, \h80, \h50, \hB0, \hF0}

\* bytes a program has left on the stack before POP AF
StackBytes == {\h00, \h0F, \h13, \h5A, \hF0, \hFF}

\* the register pairs BC, DE, HL all holding value, A and F its two bytes
WithPairs(s, value, fbyte) ==
    [set_hl(set_de(set_bc(s, value), value), value) EXCEPT
        !.a = value \div 256, !.f = from_byte(fbyte)]

\* PUSH rr ; POP rr'
PushPopMachines ==
    { [WithPairs(Machine(\h0100, spv, FALSE, FALSE), value, fbyte) EXCEPT
          !.memory = Place(@, \h0100, <<push, pop>>)] :
        spv \in PushSPs, value \in PairValues, fbyte \in FlagBytes,
        push \in PushOpcodes, pop \in PopOpcodes }

\* POP AF ; PUSH AF with the bytes low, high at the stack pointer
PopPushMachines ==
    { [Machine(\h0100, \hC100, FALSE, FALSE) EXCEPT
          !.memory = Place(write(write(@, \hC100, low), \hC101, high),
                           \h0100, <<\hF1, \hF5>>)] :
        low \in StackBytes, high \in {\h00, \h42} }

(***************************************************************************)
(* The opcodes with no documented behaviour, two in a row, with interrupts *)
(* enabled or disabled and none pending.                                   *)
(***************************************************************************)
InvalidMachines ==
    { [Machine(\h0100, \hFFFE, z, c) EXCEPT
          !.ime = ime, !.memory = Place(@, \h0100, <<op1, op2>>)] :
        op1 \in InvalidOpcodes, op2 \in InvalidOpcodes,
        z \in BOOLEAN, c \in BOOLEAN, ime \in BOOLEAN }

\* a machine set up with code that transfers control, uses the stack or is
\* an invalid opcode
InitFlow ==
    /\ cpu \in JrMachines \cup JrCcMachines \cup CallMachines
                \cup PushPopMachines \cup PopPushMachines \cup InvalidMachines
    /\ Fresh(cpu)

SpecFlow == InitFlow /\ [][Step]_vars

(***************************************************************************)
(* The CB-prefixed opcodes: each of the 256, on operand bytes that make    *)
(* every bit and both carries occur.  All of B, C, D, E and A hold the     *)
(* operand; HL points into WRAM, where the operand lies as well.           *)
(***************************************************************************)
\* operand bytes
CbValues == {\h00, \h01, \h80, \h5A, \hA5, \hFF}

\* where HL points
CbHL == \hC080

\* the registers B, C, D, E, A and the byte at HL all holding value
CbMachine(cb_op, value, c) ==
    [Machine(\h0100, \hFFFE, FALSE, c) EXCEPT
        !.a = value, !.b = value, !.c = value, !.d = value, !.e = value,
        !.h = CbHL \div 256, !.l = CbHL % 256,
        !.memory = Place(write(@, CbHL, value), \h0100, <<\hCB, cb_op>>)]

CbMachines ==
    { CbMachine(cb_op, value, c) :
        cb_op \in 0..255, value \in CbValues, c \in BOOLEAN }

(***************************************************************************)
(* 8-bit arithmetic: ADD, ADC, SUB and SBC of an immediate byte to A.      *)
(***************************************************************************)
\* values of A and of the operand: the ends of both nibbles and of the
\* byte, and some values in between
AluValues ==
    {\h00, \h01, \h07, \h08, \h0E, \h0F, \h10, \h11, \h3A, \h55, \h70, \h7F,
     \h80, \h81, \h8F, \hA5, \hC6, \hEF, \hF0, \hF1, \hFE, \hFF}

AluMachines ==
    { [Machine(\h0100, \hFFFE, FALSE, c) EXCEPT
          !.a = a, !.memory = Place(@, \h0100, <<opc, value>>)] :
        opc \in {\hC6, \hCE, \hD6, \hDE}, a \in AluValues, value \in AluValues, c \in BOOLEAN }


(***************************************************************************)
(* Stack-pointer arithmetic: ADD SP,r8 and LD HL,SP+r8 with every offset.  *)
(***************************************************************************)
\* stack pointers: around the carries out of bits 3, 7 and 15
OffsetSPs ==
    {\h0000, \h0001, \h000F, \h00F0, \h00FF, \h0FFF, \h1234, \h7FFF, \h8000,
     \hC0A8, \hFF01, \hFFF8, \hFFFF}

\* the Z and N flags are set beforehand, to be seen cleared
SpMachines ==
    { [Machine(\h0100, spv, TRUE, FALSE) EXCEPT
          !.f = [@ EXCEPT !.negative = TRUE],
          !.memory = Place(@, \h0100, <<opc, r8>>)] :
        opc \in {\hE8, \hF8}, spv \in OffsetSPs, r8 \in 0..255 }

\* a machine set up with code that computes: a CB-prefixed opcode, an 8-bit
\* addition or subtraction, or an addition to SP
InitAlu ==
    /\ cpu \in CbMachines \cup AluMachines \cup SpMachines
    /\ Fresh(cpu)

SpecAlu == InitAlu /\ [][Step]_vars

(***************************************************************************)
(* Instruction claims.                                                     *)
(***************************************************************************)
\* the byte n places after the opcode the coming step fetches
Operand(n) == read(cpu.memory, (cpu.pc + n) % 65536)

\* a byte read as a two's-complement number
Signed(b) == IF b >= 128 THEN b - 256 ELSE b

\* the condition a conditional opcode names
CcOf(opcode) ==
    CASE opcode \in {\h20, \hC0, \hC4} -> "NZ"
      [] opcode \in {\h28, \hC8, \hCC} -> "Z"
      [] opcode \in {\h30, \hD0, \hD4} -> "NC"
      [] opcode \in {\h38, \hD8, \hDC} -> "C"

\* whether the condition of the opcode holds before the step
CcTrue(opcode) ==
    CASE CcOf(opcode) = "NZ" -> ~cpu.f.zero
      [] CcOf(opcode) = "Z"  -> cpu.f.zero
      [] CcOf(opcode) = "NC" -> ~cpu.f.carry
      [] CcOf(opcode) = "C"  -> cpu.f.carry

\* everything of the CPU but PC and memory
Frame(s) == <<Regs(s), s.ime, s.halted>>

\* the step jumps by the signed offset and takes 12 cycles
Jumps ==
    /\ cpu'.pc = (cpu.pc + 2 + Signed(Operand(1))) % 65536
    /\ ret' = 12
    /\ Frame(cpu') = Frame(cpu)

\* the step falls through a two-byte instruction in 8 cycles
FallsThrough ==
    /\ cpu'.pc = (cpu.pc + 2) % 65536
    /\ ret' = 8
    /\ Frame(cpu') = Frame(cpu)

\* C25: JR r8 at p leaves PC = (p + 2 + signed(r8)) mod 2^16 in 12 cycles for
\* every offset byte; JR cc,r8 does the same when cc holds and leaves
\* PC = p + 2 in 8 cycles when it does not; nothing but PC changes.
C25_JumpRelative ==
    [][IsStep =>
        /\ next_opcode(cpu) = \h18 => Jumps
        /\ next_opcode(cpu) \in JrCcOpcodes =>
               IF CcTrue(next_opcode(cpu)) THEN Jumps ELSE FallsThrough]_vars

\* the code under test, as set up
Code(n) == read(start.machine.memory, (start.machine.pc + n) % 65536)

\* a backward JR at address 0 has wrapped to the top of the address space
C25_Witness ==
    /\ steps = 1
    /\ Code(0) = \h18 /\ Code(1) = \hFD /\ start.machine.pc = 0
    /\ cpu.pc = \hFFFF /\ ret = 12

\* addresses whose writes are stored and read back: VRAM, WRAM and its echo,
\* OAM, HRAM
Writable(addr) ==
    \/ addr >= \h8000 /\ addr <= \h9FFF
    \/ addr >= \hC000 /\ addr <= \hFE9F
    \/ addr >= \hFF80 /\ addr <= \hFFFE

\* the two bytes a push from sp stores lie in writable RAM
StackInRam(sp) == Writable((sp - 1) % 65536) /\ Writable((sp - 2) % 65536)

\* the 16-bit operand of the opcode the coming step fetches
Operand16 == Operand(2) * 256 + Operand(1)

\* the address of the instruction after a three-byte one
After3 == (cpu.pc + 3) % 65536

\* the step enters the subroutine: SP drops by 2, PC is the operand, 24 cycles
Enters ==
    /\ cpu'.sp = (cpu.sp - 2) % 65536
    /\ cpu'.pc = Operand16
    /\ ret' = 24

\* the return address lies little-endian at the new SP
ReturnStored ==
    /\ read(cpu'.memory, cpu'.sp) = After3 % 256
    /\ read(cpu'.memory, (cpu'.sp + 1) % 65536) = After3 \div 256

\* the machine was set up with CALL a16 and RET at a16, the stack in RAM
CallThenRet ==
    /\ Code(0) = \hCD
    /\ read(start.machine.memory, Code(2) * 256 + Code(1)) = \hC9
    /\ StackInRam(start.machine.sp)

\* C23: CALL a16 at p with the stack in writable RAM lowers SP by 2, stores
\* p+3 little-endian at the new SP, sets PC = a16 and takes 24 cycles; the
\* RET that follows restores SP, sets PC = p+3 and takes 16 cycles.
C23_CallRet ==
    /\ [][IsStep /\ next_opcode(cpu) = \hCD /\ StackInRam(cpu.sp)
            => Enters /\ ReturnStored]_vars
    /\ [](steps = 2 /\ CallThenRet
            => /\ cpu.sp = start.machine.sp
               /\ cpu.pc = (start.machine.pc + 3) % 65536
               /\ ret = 16)

\* CALL at 0x0100 with SP = 0xC002 and the RET have run: 0x03, 0x01 lie at
\* 0xC000, 0xC001
C23_Witness ==
    /\ steps = 2
    /\ CallThenRet
    /\ start.machine.pc = \h0100 /\ start.machine.sp = \hC002
    /\ read(cpu.memory, \hC000) = \h03 /\ read(cpu.memory, \hC001) = \h01
    /\ cpu.sp = \hC002 /\ cpu.pc = \h0103 /\ ret = 16

\* C26: CALL cc,a16 takes 24 cycles and pushes when cc holds, and otherwise
\* takes 12 cycles, advances PC by 3 and leaves SP and memory alone; RET cc
\* takes 20 cycles and pops PC when cc holds, and otherwise takes 8 cycles,
\* advances PC by 1 and leaves SP alone.
C26_ConditionalCallRet ==
    [][IsStep =>
        /\ next_opcode(cpu) \in CallCcOpcodes =>
               IF CcTrue(next_opcode(cpu))
               THEN Enters /\ (StackInRam(cpu.sp) => ReturnStored)
               ELSE /\ ret' = 12
                    /\ cpu'.pc = After3
                    /\ cpu'.sp = cpu.sp
                    /\ cpu'.memory = update_timers(cpu.memory, 12)
        /\ next_opcode(cpu) \in RetCcOpcodes =>
               IF CcTrue(next_opcode(cpu))
               THEN /\ ret' = 20
                    /\ cpu'.pc = read_word(cpu.memory, cpu.sp)
                    /\ cpu'.sp = (cpu.sp + 2) % 65536
               ELSE /\ ret' = 8
                    /\ cpu'.pc = (cpu.pc + 1) % 65536
                    /\ cpu'.sp = cpu.sp]_vars

\* CALL Z was taken and the RET NC it reached was not
C26_Witness ==
    /\ steps = 2
    /\ Code(0) = \hCC /\ start.machine.f.zero /\ start.machine.f.carry
    /\ read(start.machine.memory, SubAddr) = \hD0
    /\ cpu.sp = (start.machine.sp - 2) % 65536
    /\ cpu.pc = SubAddr + 1
    /\ ret = 8

\* the byte POP AF ; PUSH AF found on the stack as the low byte
PoppedLow == read(start.machine.memory, start.machine.sp)

\* the machine was set up with POP AF ; PUSH AF
PopThenPushAF == Code(0) = \hF1 /\ Code(1) = \hF5

\* C21: the byte value of F always has its low nibble zero: POP AF leaves F
\* the popped low byte without its bits 3..0, the F byte PUSH AF stores has
\* bits 3..0 zero, and POP AF followed by PUSH AF stores the popped low byte
\* AND 0xF0.
C21_FlagLowNibble ==
    /\ [](to_byte(cpu.f) % 16 = 0)
    /\ [][IsStep /\ next_opcode(cpu) = \hF5 /\ Writable((cpu.sp - 2) % 65536)
            => /\ read(cpu'.memory, cpu'.sp) = to_byte(cpu.f)
               /\ read(cpu'.memory, cpu'.sp) % 16 = 0]_vars
    /\ [](steps = 1 /\ PopThenPushAF => to_byte(cpu.f) = And(PoppedLow, \hF0))
    /\ [](steps = 2 /\ PopThenPushAF
            => read(cpu.memory, cpu.sp) = And(PoppedLow, \hF0))

\* POP AF has taken 0x5A from the stack and PUSH AF has stored 0x50
C21_Witness ==
    /\ steps = 2
    /\ PopThenPushAF
    /\ PoppedLow = \h5A
    /\ read(cpu.memory, cpu.sp) = \h50
    /\ cpu.a = \h42

\* the value of the register pair a PUSH or POP opcode names
PairOf(s, opcode) ==
    CASE opcode \in {\hC5, \hC1} -> s.b * 256 + s.c
      [] opcode \in {\hD5, \hD1} -> s.d * 256 + s.e
      [] opcode \in {\hE5, \hE1} -> s.h * 256 + s.l
      [] opcode \in {\hF5, \hF1} -> s.a * 256 + to_byte(s.f)

\* the machine was set up with PUSH rr ; POP rr' and the stack in RAM
PushThenPop ==
    /\ Code(0) \in PushOpcodes
    /\ Code(1) \in PopOpcodes
    /\ StackInRam(start.machine.sp)

\* PUSH lowers SP by 2 mod 2^16 and stores the pair high byte above low byte;
\* POP raises SP by 2 mod 2^16
PushPopSP ==
    [][IsStep =>
        /\ next_opcode(cpu) \in PushOpcodes =>
            /\ cpu'.sp = (cpu.sp - 2) % 65536
            /\ Writable(cpu'.sp) =>
                 read(cpu'.memory, cpu'.sp) = PairOf(cpu, next_opcode(cpu)) % 256
            /\ Writable((cpu'.sp + 1) % 65536) =>
                 read(cpu'.memory, (cpu'.sp + 1) % 65536)
                     = PairOf(cpu, next_opcode(cpu)) \div 256
        /\ next_opcode(cpu) \in PopOpcodes => cpu'.sp = (cpu.sp + 2) % 65536]_vars

\* C24 as stated: PUSH rr followed by POP rr' copies the value of rr into rr'
\* for every rr and rr', and leaves SP as before the PUSH.
C24_Stated ==
    /\ PushPopSP
    /\ [](steps = 2 /\ PushThenPop
            => /\ PairOf(cpu, Code(1)) = PairOf(start.machine, Code(0))
               /\ cpu.sp = start.machine.sp)

\* C24: PUSH rr followed by POP rr' (stack in writable RAM) copies the value
\* of rr into rr', of which POP AF keeps bits 15..4 only, and leaves SP as
\* before the PUSH; PUSH pre-decrements SP and writes the high byte at SP+1
\* and the low byte at SP of the final SP, POP post-increments, and SP wraps
\* mod 2^16.
C24_PushPop ==
    /\ PushPopSP
    /\ [](steps = 2 /\ PushThenPop
            => /\ PairOf(cpu, Code(1))
                    = IF Code(1) = \hF1
                      THEN PairOf(start.machine, Code(0)) - (PairOf(start.machine, Code(0)) % 16)
                      ELSE PairOf(start.machine, Code(0))
               /\ cpu.sp = start.machine.sp)

\* PUSH BC of 0x1234 and POP AF have run: A = 0x12, F = 0x30
C24_Witness ==
    /\ steps = 2
    /\ PushThenPop
    /\ Code(0) = \hC5 /\ Code(1) = \hF1
    /\ PairOf(start.machine, \hC5) = \h1234
    /\ cpu.a = \h12 /\ to_byte(cpu.f) = \h30
    /\ cpu.sp = start.machine.sp

\* the eight operands of the CB opcodes in the order of their encoding, the
\* seventh being the byte at address hl
Operands(s, hl) == <<s.b, s.c, s.d, s.e, s.h, s.l, read(s.memory, hl), s.a>>

\* value with its bit n made b
WithBit(value, n, b) == value - Bit(value, n) * 2 ^ n + b * 2 ^ n

\* what a CB opcode may do to its operand, by its two top bits
CbEffect(cb_op) ==
    LET reg  == cb_op % 8
        bit  == (cb_op \div 8) % 8
        hl   == get_hl(cpu)
        old  == Operands(cpu, hl)
        new  == Operands(cpu', hl)
    IN  /\ ret' = IF reg # 6 THEN 8 ELSE IF cb_op \in \h40..\h7F THEN 12 ELSE 16
        /\ \A i \in 1..8 : i # reg + 1 => new[i] = old[i]
        /\ cb_op \in \h40..\h7F =>
               /\ new = old
               /\ cpu'.memory = update_timers(cpu.memory, ret')
        /\ cb_op \in \h80..\hBF =>
               new[reg + 1] = WithBit(old[reg + 1], bit, 0) /\ cpu'.f = cpu.f
        /\ cb_op \in \hC0..\hFF =>
               new[reg + 1] = WithBit(old[reg + 1], bit, 1) /\ cpu'.f = cpu.f

\* C27: every CB-prefixed opcode takes 8 cycles in all on a register and 16
\* on (HL), but BIT b,(HL) takes 12; BIT writes nothing, and RES and SET
\* change the selected bit of their operand and nothing else.
C27_CbCycles ==
    [][IsStep /\ next_opcode(cpu) = \hCB => CbEffect(Operand(1))]_vars

\* BIT 7,(HL) has run on the byte 0x80: 12 cycles, Z clear, the byte still there
C27_Witness ==
    /\ steps = 1
    /\ Code(0) = \hCB /\ Code(1) = \h7E
    /\ read(start.machine.memory, CbHL) = \h80
    /\ read(cpu.memory, CbHL) = \h80
    /\ ~cpu.f.zero
    /\ ret = 12

\* C28: each invalid opcode is a 4-cycle no-op: step() returns 4, PC moves on
\* by 1, and the registers, the flags, SP, IME, halted and memory, the timer
\* advance apart, stay as they were.
C28_InvalidNoOp ==
    [][IsStep /\ next_opcode(cpu) \in InvalidOpcodes
        => /\ ret' = 4
           /\ cpu'.pc = (cpu.pc + 1) % 65536
           /\ Frame(cpu') = Frame(cpu)
           /\ cpu'.memory = update_timers(cpu.memory, 4)]_vars

\* 0xFD and then 0xD3 have run with IME set
C28_Witness ==
    /\ steps = 2
    /\ Code(0) = \hFD /\ Code(1) = \hD3
    /\ start.machine.ime /\ cpu.ime
    /\ ~cpu.halted
    /\ cpu.pc = \h0102
    /\ ret = 4

\* the sum or difference the four operations form, carry-in included where
\* the operation uses it, and the same on the low nibbles
AluSum(sign, c) == cpu.a + sign * (Operand(1) + c)
AluLow(sign, c) == (cpu.a % 16) + sign * ((Operand(1) % 16) + c)

\* A and the flags after the step are those of the sum
AluResult(sign, c) ==
    /\ cpu'.a = AluSum(sign, c) % 256
    /\ cpu'.f.zero = (AluSum(sign, c) % 256 = 0)
    /\ cpu'.f.negative = (sign = -1)
    /\ cpu'.f.half_carry = (AluLow(sign, c) < 0 \/ AluLow(sign, c) > 15)
    /\ cpu'.f.carry = (AluSum(sign, c) < 0 \/ AluSum(sign, c) > 255)

\* the carry flag as a number
CarryIn == IF cpu.f.carry THEN 1 ELSE 0

\* C29: ADD, ADC, SUB and SBC leave A = (A +- v +- c) mod 256, Z = (A = 0),
\* N = 0 for ADD and ADC and 1 for SUB and SBC, H the carry or borrow between
\* bits 3 and 4 and C the carry or borrow out of bit 7, both with c counted
\* in for ADC and SBC; ADD and SUB ignore c.
C29_Arithmetic ==
    [][IsStep =>
        /\ next_opcode(cpu) = \hC6 => AluResult(1, 0)
        /\ next_opcode(cpu) = \hCE => AluResult(1, CarryIn)
        /\ next_opcode(cpu) = \hD6 => AluResult(-1, 0)
        /\ next_opcode(cpu) = \hDE => AluResult(-1, CarryIn)]_vars

\* ADC of 0x00 to A = 0x0F with the carry set: A = 0x10, H set by the carry-in
C29_Witness ==
    /\ steps = 1
    /\ Code(0) = \hCE /\ Code(1) = \h00
    /\ start.machine.a = \h0F /\ start.machine.f.carry
    /\ cpu.a = \h10
    /\ cpu.f = [zero |-> FALSE, negative |-> FALSE, half_carry |-> TRUE, carry |-> FALSE]

\* the sum and the flags ADD SP,r8 and LD HL,SP+r8 form
SpSum == (cpu.sp + Signed(Operand(1))) % 65536

SpFlags ==
    [zero       |-> FALSE,
     negative   |-> FALSE,
     half_carry |-> (cpu.sp % 16) + (Operand(1) % 16) > 15,
     carry      |-> (cpu.sp % 256) + Operand(1) > 255]

\* C30: ADD SP,r8 and LD HL,SP+r8 form (SP + signed(r8)) mod 2^16 with Z = 0,
\* N = 0, H the carry out of bit 3 and C the carry out of bit 7 of the low
\* byte of SP plus r8 taken as an unsigned byte, for negative r8 too;
\* LD HL,SP+r8 leaves SP as it was.
C30_SpOffset ==
    [][IsStep =>
        /\ next_opcode(cpu) = \hE8 => cpu'.sp = SpSum /\ cpu'.f = SpFlags
        /\ next_opcode(cpu) = \hF8 =>
               get_hl(cpu') = SpSum /\ cpu'.f = SpFlags /\ cpu'.sp = cpu.sp]_vars

\* LD HL,SP-1 at SP = 0x0001: HL = 0x0000, H and C set, SP still 0x0001
C30_Witness ==
    /\ steps = 1
    /\ Code(0) = \hF8 /\ Code(1) = \hFF
    /\ start.machine.sp = \h0001
    /\ get_hl(cpu) = \h0000
    /\ cpu.sp = \h0001
    /\ cpu.f = [zero |-> FALSE, negative |-> FALSE, half_carry |-> TRUE, carry |-> TRUE]

(***************************************************************************)
(* Decimal adjustment: DAA on every value of A under every combination of  *)
(* the flags, and DAA after an addition or subtraction of two packed-BCD   *)
(* bytes.                                                                  *)
(***************************************************************************)
\* the bytes whose two nibbles are decimal digits
BcdBytes == {16 * hi + lo : hi \in 0..9, lo \in 0..9}

DaaMachines ==
    { [Machine(\h0100, \hFFFE, FALSE, FALSE) EXCEPT
          !.a = a, !.f = from_byte(16 * fl),
          !.memory = Place(@, \h0100, <<\h27>>)] :
        a \in 0..255, fl \in 0..15 }

\* ADD, ADC, SUB or SBC of an immediate BCD byte to a BCD byte, then DAA
BcdMachines ==
    { [Machine(\h0100, \hFFFE, FALSE, c) EXCEPT
          !.a = x, !.memory = Place(@, \h0100, <<opc, y, \h27>>)] :
        opc \in {\hC6, \hCE, \hD6, \hDE}, x \in BcdBytes, y \in BcdBytes,
        c \in BOOLEAN }

InitBcd ==
    /\ cpu \in DaaMachines \cup BcdMachines
    /\ Fresh(cpu)

SpecBcd == InitBcd /\ [][Step]_vars

\* the two adjustments DAA applies, as the rule states them
DaaLow  == cpu.f.half_carry \/ (~cpu.f.negative /\ cpu.a % 16 > 9)
DaaHigh == cpu.f.carry \/ (~cpu.f.negative /\ cpu.a > \h99)

DaaAmount == (IF DaaLow THEN \h06 ELSE 0) + (IF DaaHigh THEN \h60 ELSE 0)

\* C31: DAA with N = 0 adds 0x06 if H or the low nibble of A exceeds 9, and
\* adds 0x60 if C or A exceeds 0x99; with N = 1 it subtracts 0x06 if H and
\* 0x60 if C; afterwards Z = (A = 0), H = 0, N is unchanged, and C is set
\* exactly when the 0x60 adjustment was applied or C was set before.
C31_Daa ==
    [][IsStep /\ next_opcode(cpu) = \h27
        => /\ cpu'.a = IF cpu.f.negative
                       THEN (cpu.a - DaaAmount) % 256
                       ELSE (cpu.a + DaaAmount) % 256
           /\ cpu'.f.zero = (cpu'.a = 0)
           /\ ~cpu'.f.half_carry
           /\ cpu'.f.negative = cpu.f.negative
           /\ cpu'.f.carry = (DaaHigh \/ cpu.f.carry)
           /\ ret' = 4]_vars

\* DAA on A = 0x9A with no flag set: both adjustments, A = 0x00, Z and C set
C31_Witness ==
    /\ steps = 1
    /\ Code(0) = \h27
    /\ start.machine.a = \h9A /\ to_byte(start.machine.f) = \h00
    /\ cpu.a = \h00
    /\ to_byte(cpu.f) = \h90

\* the number a packed-BCD byte encodes, and the byte that encodes n < 100
Decimal(b) == 10 * (b \div 16) + (b % 16)
Packed(n) == 16 * (n \div 10) + (n % 10)

\* the machine was set up with an addition (sign 1) or subtraction (sign -1)
\* of BCD bytes, with or without carry, followed by DAA
BcdCode(opcodes) ==
    /\ Code(0) \in opcodes
    /\ Code(2) = \h27
    /\ start.machine.a \in BcdBytes
    /\ Code(1) \in BcdBytes

\* the carry-in the first instruction uses
BcdCarry == IF Code(0) \in {\hCE, \hDE} /\ start.machine.f.carry THEN 1 ELSE 0

BcdSum  == Decimal(start.machine.a) + Decimal(Code(1)) + BcdCarry
BcdDiff == Decimal(start.machine.a) - Decimal(Code(1)) - BcdCarry

\* C39: for packed-BCD bytes x and y and carry-in c, ADD or ADC followed by
\* DAA leaves A the packed BCD of (x + y + c) mod 100 with C = (x + y + c >=
\* 100), and SUB or SBC followed by DAA leaves A the packed BCD of
\* (x - y - c) mod 100 with C = (x < y + c).
C39_BcdArithmetic ==
    /\ steps = 2 /\ BcdCode({\hC6, \hCE})
           => cpu.a = Packed(BcdSum % 100) /\ cpu.f.carry = (BcdSum >= 100)
    /\ steps = 2 /\ BcdCode({\hD6, \hDE})
           => cpu.a = Packed(BcdDiff % 100) /\ cpu.f.carry = (BcdDiff < 0)

\* SBC of 0x00 from 0x10 with the carry set, then DAA: 10 - 0 - 1 = 09
C39_Witness ==
    /\ steps = 2
    /\ BcdCode({\hDE})
    /\ start.machine.a = \h10 /\ Code(1) = \h00 /\ start.machine.f.carry
    /\ cpu.a = \h09
    /\ ~cpu.f.carry

(***************************************************************************)
(* Machine creation as main does it: an image of 256 bytes is loaded as    *)
(* the boot ROM, an image of any other length as the cartridge.            *)
(***************************************************************************)
\* images read from the ROM file, by their length and non-zero bytes
RomImages ==
    { [len |-> 256,
       bytes |-> Put(Put(Zeros, \h00, OP_DI), \hFF, \h50)],
      [len |-> 256,
       bytes |-> Put(Put(Zeros, \h01, OP_EI), \h80, \h3C)],
      [len |-> ROM_SIZE,
       bytes |-> Put(Put(Put(Zeros, \h0000, \hC3), \h00FF, \hA7), \h0100, OP_EI)],
      [len |-> ROM_SIZE,
       bytes |-> Put(Put(Put(Zeros, \h0040, \hD9), \h0100, OP_EI), \h0101, OP_HALT)] }

\* main: load_boot_rom for a 256-byte file, load_rom otherwise
main_load(s, image) ==
    IF image.len = 256
    THEN cpu_load_boot_rom(s, image.bytes)
    ELSE cpu_load_rom(s, image.bytes)

InitLoad ==
    /\ \E image \in RomImages :
          /\ cpu = main_load(CPUNew, image)
          /\ start = [tima |-> 0, if_reg |-> 0, image |-> image]
    /\ ret = 0
    /\ steps = 0
    /\ Idle
    /\ ticked = 0
    /\ div_cycles = 0

SpecLoad == InitLoad /\ [][Next]_vars

\* C35: the boot overlay is active only when a boot ROM of exactly 256
\* bytes has been loaded; a machine given only a cartridge ROM runs without
\* the overlay, so read(a) for a < 0x100 returns the cartridge byte ROM[a].
C35_OverlayOnlyWithBoot ==
    start.image.len # 256
        => \A a \in 0..255 : read(cpu.memory, a) = Get(start.image.bytes, a)

(***************************************************************************)
(* Interrupt handlers: programs of EI, DI, HALT, NOP and RETI in the       *)
(* cartridge, a handler ending in RETI at each of the five vectors, IE and *)
(* IF set beforehand, the timer off.                                       *)
(***************************************************************************)
OP_RETI == \hD9

\* where the main program lies
MainAddr == \h0150

\* the stack pointers: HRAM, WRAM, a push onto IF, a push wrapping onto IE
IrqSPs == {\hFFFE, \hC002, \hFF11, \h0001}

\* the same handler code at 0x40, 0x48, 0x50, 0x58 and 0x60
RECURSIVE Handlers(_, _, _)
Handlers(mem, code, bit) ==
    IF bit > 4
    THEN mem
    ELSE Handlers(Place(mem, vector_of(bit), code), code, bit + 1)

IrqMachine(spv, ime, ie, if_reg, main, handler) ==
    [Machine(MainAddr, spv, FALSE, FALSE) EXCEPT
        !.ime = ime,
        !.memory = write(write(Handlers(Place(@, MainAddr, main), handler, 0),
                               IE_ADDR, ie), IF_ADDR, if_reg)]

IrqMachines ==
    { IrqMachine(spv, ime, ie, if_reg, <<o1, o2>>, <<h1, OP_RETI>>) :
        spv \in IrqSPs, ime \in BOOLEAN,
        ie \in {\h00, \h05, \hFF}, if_reg \in {\h00, \h05, \h14, \hE0},
        o1 \in {OP_NOP, OP_EI, OP_DI, OP_HALT, OP_RETI},
        o2 \in {OP_NOP, OP_EI, OP_DI, OP_HALT, OP_RETI},
        h1 \in {OP_NOP, OP_EI, OP_RETI} }

InitIrq ==
    /\ cpu \in IrqMachines
    /\ Fresh(cpu)

SpecIrq == InitIrq /\ [][Step]_vars

\* the enabled requests of the machine as it was set up
StartPending ==
    And(And(read(start.machine.memory, IE_ADDR), read(start.machine.memory, IF_ADDR)),
        \h1F)

\* the coming step fetches and executes the opcode opc
Executes(opc) ==
    /\ cpu'.irq = NoIrq
    /\ cpu'.fetched >= 1
    /\ next_opcode(cpu) = opc

\* the machine starts with IME off on an EI
EiFirst == Code(0) = OP_EI /\ ~start.machine.ime

\* C37: EI sets IME immediately and DI clears it immediately; if an enabled
\* interrupt is already pending when EI executes, the very next step()
\* services it (20 cycles) before the instruction following EI is fetched;
\* and after DI no interrupt is serviced until EI or RETI executes.
C37_EiDiImmediate ==
    /\ [][IsStep /\ Executes(OP_EI) => cpu'.ime]_vars
    /\ [][IsStep /\ Executes(OP_DI) => ~cpu'.ime]_vars
    /\ [](steps = 2 /\ EiFirst /\ StartPending # 0
            => /\ cpu.irq = Lowest(StartPending)
               /\ ret = 20
               /\ cpu.fetched = 0
               /\ cpu.pc = Vector(Lowest(StartPending)))
    /\ [][IsStep /\ ~cpu.ime => cpu'.irq = NoIrq]_vars
    /\ [][IsStep /\ ~cpu.ime /\ cpu'.ime
            => Executes(OP_EI) \/ Executes(OP_RETI)]_vars

\* EI with VBlank and Timer pending: the next step went to 0x0040
C37_Witness ==
    /\ steps = 2
    /\ EiFirst
    /\ StartPending = \h05
    /\ cpu.irq = 0
    /\ ret = 20
    /\ cpu.pc = \h0040

\* the machine starts with IME on, an enabled request and its stack in RAM,
\* so its first step services the request
ServicedFirst ==
    /\ start.machine.ime
    /\ StartPending # 0
    /\ StackInRam(start.machine.sp)

\* byte n of the handler the first step enters
HandlerCode(n) ==
    read(start.machine.memory, Vector(Lowest(StartPending)) + n)

\* the state the interrupted program resumes in
Resumed ==
    /\ cpu.pc = start.machine.pc
    /\ cpu.sp = start.machine.sp
    /\ cpu.ime
    /\ cpu.irq = NoIrq

\* C38: interrupt entry and RETI form a round trip: if an interrupt is
\* serviced when PC = p and SP = s (stack in writable RAM) and the handler
\* executes RETI with SP back at s - 2 and the two stack bytes unmodified,
\* then after RETI PC = p, SP = s and IME is true again; between the
\* dispatch and the RETI no further interrupt is serviced unless the
\* handler executes EI.
C38_RetiRoundTrip ==
    /\ [](steps = 1 /\ ServicedFirst
            => /\ cpu.irq = Lowest(StartPending)
               /\ cpu.pc = Vector(cpu.irq)
               /\ cpu.sp = (start.machine.sp - 2) % 65536
               /\ ~cpu.ime)
    /\ [](steps = 2 /\ ServicedFirst /\ HandlerCode(0) = OP_RETI
            => Resumed /\ ret = 16)
    /\ [](steps = 2 /\ ServicedFirst /\ HandlerCode(0) = OP_NOP
            => cpu.irq = NoIrq /\ ~cpu.ime /\ cpu.sp = (start.machine.sp - 2) % 65536)
    /\ [](steps = 3 /\ ServicedFirst /\ HandlerCode(0) = OP_NOP
                    /\ HandlerCode(1) = OP_RETI
            => Resumed /\ ret = 16)

\* the Timer handler ran NOP, RETI with Joypad still requested, and the
\* program is back at its first instruction
C38_Witness ==
    /\ steps = 3
    /\ ServicedFirst
    /\ StartPending = \h14
    /\ HandlerCode(0) = OP_NOP
    /\ cpu.pc = MainAddr
    /\ cpu.sp = \hC002
    /\ cpu.ime
    /\ IF_ = \h10

\* the interrupt check of step() on the current state
Check == handle_interrupts(cpu).cpu

\* the check leaves IF, IE, SP and PC as they are
CheckLeaves ==
    /\ read(Check.memory, IF_ADDR) = IF_
    /\ read(Check.memory, IE_ADDR) = IE
    /\ Check.sp = cpu.sp
    /\ Check.pc = cpu.pc

\* the IF bits that are set before the step and clear after its check
Cleared == {b \in 0..7 : Bit(IF_, b) = 1 /\ Bit(cpu'.chk.if_reg, b) = 0}

\* every request made before the step is still made after it
Kept == \A b \in 0..7 : Bit(IF_, b) = 1 => Bit(IF_', b) = 1

\* C40: a requested interrupt is never lost by the CPU: the interrupt
\* check of step() clears at most one IF bit per step and only when it
\* dispatches that interrupt; while IME is false (halted or not) the check
\* leaves IF, IE, SP and PC unchanged, so an IF bit set while IME is false
\* is still set when IME later becomes true.  This is the claim as stated.
C40_Stated ==
    /\ [][IsStep => Cleared \subseteq {cpu'.irq}]_vars
    /\ [](~cpu.ime => CheckLeaves)
    /\ [][IsStep /\ ~cpu.ime => Kept]_vars

\* C40, amended: the same, provided neither byte of the PC pushed by the
\* dispatch is stored to 0xFF0F (SP is not 0xFF10 or 0xFF11); when one is,
\* IF holds the byte the push stored.
C40_NeverLost ==
    /\ [][IsStep /\ ~(cpu'.irq # NoIrq /\ PushHitsIF)
            => Cleared \subseteq {cpu'.irq}]_vars
    /\ [][IsStep /\ cpu'.irq # NoIrq /\ cpu.sp = \hFF11
            => cpu'.chk.if_reg = cpu.pc % 256]_vars
    /\ [][IsStep /\ cpu'.irq # NoIrq /\ cpu.sp = \hFF10
            => cpu'.chk.if_reg = cpu.pc \div 256]_vars
    /\ [](~cpu.ime => CheckLeaves)
    /\ [][IsStep /\ ~cpu.ime => Kept]_vars

\* requests made with IME off were kept over a HALT and an EI, and the
\* third step serviced VBlank and left the Timer request set
C40_Witness ==
    /\ steps = 3
    /\ Code(0) = OP_HALT /\ Code(1) = OP_EI
    /\ ~start.machine.ime
    /\ StartPending = \h05
    /\ cpu.irq = 0
    /\ IF_ = \h04

(***************************************************************************)
(* The emulation loop with the GPU: each pass calls cpu.step() and hands   *)
(* the cycles it returns to gpu.step().  The runs start a few steps before *)
(* the end of a frame.                                                     *)
(***************************************************************************)
\* cycle counts the GPU has reached: step() returns multiples of 4
GpuCounts == {0} \cup {FRAME_CYCLES - 4 * k : k \in 1..6}

\* one-byte instructions of 4, 8, 12 and 16 cycles, and CALL with 24
GpuOps == {OP_NOP, \h03, \h34, \hC5, \hCD}

GpuMachines ==
    { [Machine(MainAddr, \hFFFE, FALSE, FALSE) EXCEPT
          !.ime = ime,
          !.memory = write(write(Place(@, MainAddr, <<o1, o2>>), IE_ADDR, ie),
                           IF_ADDR, if_reg)] :
        ime \in BOOLEAN, ie \in {\h00, \h01}, if_reg \in {\h00, \h04, \hE2},
        o1 \in GpuOps, o2 \in GpuOps }

InitGpu ==
    /\ cpu \in GpuMachines
    /\ gpu \in {[cycles |-> n] : n \in GpuCounts}
    /\ ret = 0
    /\ steps = 0
    /\ op = NoOp
    /\ input = InputNew
    /\ ticked = 0
    /\ div_cycles = 0
    /\ start = [tima |-> 0, if_reg |-> 0, machine |-> cpu]

\* let cycles = cpu.step(); gpu.step(cycles, cpu.get_memory());
LoopStep ==
    /\ steps < MaxSteps
    /\ \E r \in {step(cpu)} :
          \E g \in {gpu_step(gpu, r.cycles, r.cpu.memory)} :
             /\ cpu' = [r.cpu EXCEPT !.memory = g.memory]
             /\ gpu' = g.gpu
             /\ ret' = r.cycles
    /\ steps' = steps + 1
    /\ UNCHANGED <<ticked, div_cycles, start, op, input>>

SpecGpu == InitGpu /\ [][LoopStep]_vars

\* the machine as cpu.step() leaves it, before gpu.step() is called
AfterCpu == step(cpu).cpu

\* C36: each time the PPU's accumulated dot count reaches 70224 it sets
\* bit 0 of IF, leaving the other IF bits unchanged, and starts a new
\* frame; between boundaries it never changes IF; and its dot counter is
\* below 70224 after every PPU step.
C36_VBlank ==
    /\ [][IsStep /\ gpu.cycles + ret' >= 70224
            => /\ gpu'.cycles = 0
               /\ Bit(IF_', 0) = 1
               /\ \A b \in 1..7 : Bit(IF_', b) = Bit(read(AfterCpu.memory, IF_ADDR), b)]_vars
    /\ [][IsStep /\ gpu.cycles + ret' < 70224
            => /\ gpu'.cycles = gpu.cycles + ret'
               /\ IF_' = read(AfterCpu.memory, IF_ADDR)]_vars
    /\ [](gpu.cycles < 70224)

\* a PUSH of 16 cycles took the count from 70208 to the boundary exactly:
\* VBlank is requested next to the Timer request, and a new frame begins
C36_Witness ==
    /\ steps = 1
    /\ Code(0) = \hC5
    /\ ret = 16
    /\ read(start.machine.memory, IF_ADDR) = \h04
    /\ IF_ = \h05
    /\ gpu.cycles = 0

(***************************************************************************)
(* The tick counter: steps that execute, steps that service an interrupt   *)
(* and steps taken while halted, with the cycles each call returned added  *)
(* up in ticked.                                                           *)
(***************************************************************************)
\* the program of test_timing_accuracy: NOP ; LD A,0x42 ; INC B
TimingMachine ==
    [Machine(\h0100, \hFFFE, FALSE, FALSE) EXCEPT
        !.memory = Place(@, \h0100, <<\h00, \h3E, \h42, \h04>>)]

InitClock ==
    /\ cpu \in IrqMachines \cup {TimingMachine}
    /\ Fresh(cpu)

\* cpu.step(), the cycles it returns added to the sum
ClockStep ==
    /\ steps < MaxSteps
    /\ \E r \in {step(cpu)} :
          /\ cpu' = r.cpu
          /\ ret' = r.cycles
          /\ ticked' = ticked + r.cycles
    /\ steps' = steps + 1
    /\ UNCHANGED <<div_cycles, start, op, input, gpu>>

SpecClock == InitClock /\ [][ClockStep]_vars

LenPlaces ==
    { [pc |-> \hFFFF, sp |-> \h0000, hl |-> \hFFFE, bc |-> \hFE9F, de |-> \hFF7F],
      [pc |-> \h00FF, sp |-> \hFFFF, hl |-> \h9FFF, bc |-> \hDFFF, de |-> \hFDFF],
      [pc |-> \hFF7F, sp |-> \hFEA0, hl |-> \hFF80, bc |-> \h8000, de |-> \hE000],
      [pc |-> \h7FFF, sp |-> \h0001, hl |-> \hFEFF, bc |-> \hBFFF, de |-> \hC000] }

\* the two bytes behind the opcode: offsets, high-page addresses, 16-bit
\* addresses
LenOperands == {<<\h7F, \hFF>>, <<\hFE, \hFF>>, <<\h00, \h80>>}

LenMachine(k, c, tac, code) ==
    [Machine(k.pc, k.sp, FALSE, c) EXCEPT
        !.h = k.hl \div 256, !.l = k.hl % 256,
        !.b = k.bc \div 256, !.c = k.bc % 256,
        !.d = k.de \div 256, !.e = k.de % 256,
        !.memory = Place(write(@, TAC_ADDR, tac), k.pc, code)]

\* every opcode at every place, and machines about to service an interrupt
\* or to drop one with a bit above 4
LenMachines ==
    { LenMachine(k, c, tac, <<opc>> \o b) :
        k \in LenPlaces, c \in BOOLEAN, tac \in {\h00, \h05}, opc \in 0..255,
        b \in LenOperands }
    \cup
    { [LenMachine(k, FALSE, \h05, <<OP_NOP>>) EXCEPT
          !.ime = TRUE,
          !.memory = write(write(@, IF_ADDR, req), IE_ADDR, req)] :
        k \in LenPlaces, req \in {\h10, \hE0, \hFF} }

InitLen ==
    /\ cpu \in LenMachines
    /\ Fresh(cpu)

SpecLen == InitLen /\ [][Step]_vars

\* JR, JP, CALL, RET, RETI and RST in all their forms
ControlTransfers ==
    {\h18, \h20, \h28, \h30, \h38}
    \cup {\hC3, \hC2, \hCA, \hD2, \hDA, \hE9}
    \cup {\hCD, \hC4, \hCC, \hD4, \hDC}
    \cup {\hC9, \hC0, \hC8, \hD0, \hD8, \hD9}
    \cup {\hC7, \hCF, \hD7, \hDF, \hE7, \hEF, \hF7, \hFF}

\* opcodes followed by an 8-bit immediate, STOP and the CB prefix
TwoByteOpcodes ==
    {\h06, \h0E, \h16, \h1E, \h26, \h2E, \h36, \h3E}
    \cup {\hC6, \hCE, \hD6, \hDE, \hE6, \hEE, \hF6, \hFE}
    \cup {\hE0, \hF0, \hE8, \hF8}
    \cup {\h10, \hCB}

\* opcodes followed by a 16-bit immediate
ThreeByteOpcodes == {\h01, \h11, \h21, \h31, \h08, \hEA, \hFA}

Length(opcode) ==
    IF opcode \in ThreeByteOpcodes THEN 3
    ELSE IF opcode \in TwoByteOpcodes THEN 2
    ELSE 1

\* C33: for every instruction that is not a control transfer (no JP, JR,
\* CALL, RET, RETI or RST, no interrupt dispatch, CPU not halted), step()
\* advances PC by exactly the instruction length: 1 for single-byte
\* opcodes, 2 for opcodes with an 8-bit immediate, for STOP and for
\* CB-prefixed opcodes, 3 for opcodes with a 16-bit immediate, wrapping
\* mod 2^16.
C33_PcAdvance ==
    [][IsStep /\ cpu'.irq = NoIrq /\ ~cpu'.chk.halted
              /\ next_opcode(cpu) \notin ControlTransfers
        => /\ cpu'.pc = (cpu.pc + Length(next_opcode(cpu))) % 65536
           /\ cpu'.fetched = Length(next_opcode(cpu))]_vars

\* LD (a16),A fetched at 0xFFFF: the program counter wrapped to 0x0002
C33_Witness ==
    /\ steps = 1
    /\ start.machine.pc = \hFFFF
    /\ Code(0) = \hEA
    /\ cpu.pc = \h0002
    /\ ret = 16

\* C34: no emulated program makes the core abort: from every reachable
\* machine state and for every opcode byte and memory content, step() and
\* the timer tick complete without reaching an unreachable branch, an
\* out-of-range array index or an arithmetic overflow, including when SP
\* wraps around 0x0000/0xFFFF and when PC wraps.
C34_NoAbort == ~step_aborts(cpu)

\* PUSH BC fetched at 0xFFFF with SP = 0x0000: PC and SP have both wrapped
C34_Witness ==
    /\ steps = 1
    /\ start.machine.pc = \hFFFF /\ start.machine.sp = \h0000
    /\ Code(0) = \hC5
    /\ cpu.pc = \h0000
    /\ cpu.sp = \hFFFE
    /\ read(cpu.memory, \hFFFF) = \hFE
====
